---- MODULE Spec2Model ----
(***************************************************************************)
(* Run-time model of the lumper VMM: the vCPU exit loop (Vcpu::run), the   *)
(* host poll loop (VMM::run), the three mutexes they share (Serial,        *)
(* IoManager, VirtioNet) and the virtio-net RX/TX drains.                  *)
(***************************************************************************)
EXTENDS Integers, Sequences, FiniteSets, TLC

\* ------------------------------------------------------------------ bounds

\* Descriptor chains the guest publishes over a run (both queues together).
MaxChains == 2
\* Capacity of the UART RX FIFO in the model.
FifoSize == 2
\* Size of guest memory in bytes (mem_size_mb << 20 in the program).
MemSize == 64

\* --------------------------------------------------------------- constants

SERIAL_PORT_BASE == 1016
SERIAL_PORT_LAST_REGISTER == 1023
VIRTIO_HDR_LEN == 12
\* configure_net: virtio_address (0xd0000000) and the size of the registered
\* range (0x1000). MMIO addresses are counted in 32-bit words, the unit of the
\* virtio-mmio registers, so that they fit the model checker's integers.
VirtioAddress == 872415232
VirtioSize == 1024
\* Length reported for a transmitted chain by queue_notify (0x100).
TxUsedLen == 256
\* LSR after reset: THR empty and transmitter idle (bits 5 and 6).
LSR_DEFAULT == 96
\* LSR bit 0: data ready.
LSR_DATA_BIT == 1

\* ----------------------------------------------------------------- threads

Vcpus == {0, 1}
HostThread == 2
NoThread == 3

VARIABLES
    boot,             \* the main thread inside VMM::configure (see BootSpec)
    wire,             \* the bytes of one chain being transferred (see DataSpec)
    call,             \* one call of a function of the launch path (see FnSpec)
    vcpus,            \* VMM.vcpus: the configured vCPUs not yet moved to a thread
    vcpuState,        \* position of each vCPU thread
    vcpuExit,         \* what the last vcpu_fd.run() of each vCPU returned
    hostState,        \* position of the main thread inside VMM::run
    hostResult,       \* what VMM::run returned ("none" while it runs)
    pending,          \* epoll events of the current round not yet handled
    hostBuf,          \* bytes read from stdin, or the frame size read from TAP
    hostLog,          \* device events of the handler the host is in
    serialOwner,      \* holder of Mutex<LumperSerial>
    serialPoisoned,
    mmioOwner,        \* holder of Mutex<IoManager>
    mmioPoisoned,
    netOwner,         \* holder of Mutex<VirtioNet>
    netPoisoned,
    netPresent,       \* VMM.virtio_net is Some
    fifo,             \* UART RX FIFO
    scr,              \* UART scratch register
    lsr,              \* UART line status register
    avail,            \* per queue: chains published and not yet taken
    used,             \* per queue: used ring entries <<head, len>>
    notif,            \* per queue: guest notifications enabled
    offered,          \* chains published so far
    interrupt_status, \* VirtioConfig.interrupt_status
    txLog             \* device events of the queue_notify in progress

vars == <<boot, wire, call, vcpus, vcpuState, vcpuExit, hostState, hostResult, pending, hostBuf,
          hostLog, serialOwner, serialPoisoned, mmioOwner, mmioPoisoned,
          netOwner, netPoisoned, netPresent, fifo, scr, lsr, avail,
          used, notif, offered, interrupt_status, txLog>>

vcpuVars == <<vcpuState, vcpuExit>>
hostVars == <<boot, wire, call, vcpus, hostState, hostResult, pending, hostBuf, hostLog>>
serialLockVars == <<serialOwner, serialPoisoned>>
mmioLockVars == <<mmioOwner, mmioPoisoned>>
netLockVars == <<netOwner, netPoisoned>>
serialVars == <<fifo, scr, lsr>>
queueVars == <<avail, used, notif, offered>>
netVars == <<queueVars, interrupt_status, txLog>>

RXQ == 0
TXQ == 1
Queues == {RXQ, TXQ}

\* ------------------------------------------------------------ KVM exits

Exit(k, a, d) == [kind |-> k, a |-> a, d |-> d]
NoExit == Exit("none", 0, 0)

\* virtio-mmio registers QueueNotify (0x50), InterruptStatus (0x60) and
\* InterruptACK (0x64), as word addresses.
QueueNotifyOff == VirtioAddress + 20
InterruptStatusOff == VirtioAddress + 24
InterruptAckOff == VirtioAddress + 25

Ports == {SERIAL_PORT_BASE, SERIAL_PORT_LAST_REGISTER, 128}

ExitSet ==
    {Exit("Hlt", 0, 0), Exit("Shutdown", 0, 0), Exit("Other", 0, 0)}
    \cup {Exit("EINTR", 0, 0), Exit("EAGAIN", 0, 0), Exit("EFAULT", 0, 0)}
    \cup {Exit("IoOut", p, 1) : p \in Ports}
    \cup {Exit("IoIn", p, 0) : p \in Ports}
    \cup {Exit("MmioWrite", QueueNotifyOff, d) : d \in {0, 1}}
    \cup {Exit("MmioWrite", InterruptAckOff, 1)}
    \cup {Exit("MmioWrite", VirtioAddress + VirtioSize, 1)}
    \cup {Exit("MmioRead", InterruptStatusOff, 0)}
    \cup {Exit("MmioRead", VirtioAddress + VirtioSize, 0)}

RunErrors == {"EINTR", "EAGAIN", "EFAULT"}

\* The exits the guest causes. Two scenarios are explored: without a TAP
\* interface (the default launch) the guest causes every exit of ExitSet; with
\* one, it drives the virtio-net device (and may halt).
NetExits == {e \in ExitSet : e.kind \in {"MmioWrite", "MmioRead", "Hlt"}}

\* Without a device every MMIO address is uncovered: two of them stand for all.
ConsoleExits ==
    {e \in ExitSet :
        e.kind \in {"MmioWrite", "MmioRead"} =>
            e.a \in {QueueNotifyOff, VirtioAddress + VirtioSize}}

GuestExits == IF netPresent THEN NetExits ELSE ConsoleExits

\* A dispatch that knows the first UART register only.
IsSerialPort_BaseOnly(p) == p = SERIAL_PORT_BASE

\* match addr { SERIAL_PORT_BASE..=SERIAL_PORT_LAST_REGISTER => .. }
IsSerialPort(p) == SERIAL_PORT_BASE <= p /\ p <= SERIAL_PORT_LAST_REGISTER

\* IoManager lookup: the only registered range is the virtio-net one.
Covered(addr) ==
    netPresent /\ VirtioAddress <= addr /\ addr < VirtioAddress + VirtioSize

\* ----------------------------------------------------- descriptor chains

Desc(a, l) == [addr |-> a, len |-> l]

ChainShapes ==
    { <<Desc(0, 12), Desc(12, 8)>>,
      <<Desc(0, 4)>>,
      <<Desc(0, 4), Desc(MemSize, 8)>> }

FrameSizes == {14, 30}

Min(a, b) == IF a < b THEN a ELSE b

InMemory(d) == d.addr + d.len <= MemSize

RECURSIVE TotalLen(_)
TotalLen(ds) == IF ds = <<>> THEN 0 ELSE Head(ds).len + TotalLen(Tail(ds))

\* The chains published on a queue: a buffer of 20 bytes and one that runs
\* out of guest memory on both, a chain shorter than a virtio-net header on
\* the TX queue.
QueueShapes(q) ==
    IF q = TXQ THEN ChainShapes
    ELSE {ds \in ChainShapes : TotalLen(ds) >= VIRTIO_HDR_LEN}

AllInMemory(ds) == \A i \in 1..Len(ds) : InMemory(ds[i])

\* write_frame_to_guest, the descriptor loop: scatter `size` bytes over the
\* descriptors `ds`, `count` bytes being written already. write_slice fails
\* when the slice does not fit in guest memory.
RECURSIVE RxFill(_, _, _)
RxFill(ds, size, count) ==
    IF ds = <<>> \/ size - count = 0
    THEN [ok |-> TRUE, count |-> count]
    ELSE LET len == Min(size - count, Head(ds).len) IN
         IF Head(ds).addr + len > MemSize
         THEN [ok |-> FALSE, count |-> count]
         ELSE RxFill(Tail(ds), size, count + len)

\* -------------------------------------------------------------- type sets

VcpuStates ==
    {"unspawned", "dropped", "connect", "kvm_enter", "in_kvm", "exited",
     "serial_cs", "mmio_cs", "dev_cs", "qn_disable", "qn_iter", "qn_enable",
     "panicked"}

HostStates ==
    {"configure", "spawn", "raw", "getfd", "epoll_wait", "epoll_intr", "epoll_err", "events",
     "stdin_lock", "enq", "enq_trig", "enq_ret",
     "tap_read", "tap_frame", "tap_enable", "tap_notify", "tap_status",
     "tap_irq", "tap_ret", "returned", "panicked"}

HostResults ==
    {"none", "TerminalConfigure", "EpollError", "StdinRead", "StdinWrite",
     "VirtioNet"}

\* ------------------------------------------------------------------- Init

\* What VMM::configure was called with: cpus, memory (MiB), tap, console,
\* initramfs.
\* No function call is being followed.
NoCall == [fn |-> "none", arg |-> <<>>, done |-> FALSE, ok |-> FALSE, val |-> <<>>]

\* No chain is being followed byte by byte.
NoTransfer ==
    [pc |-> "idle", head |-> 0, descs |-> <<>>, i |-> 1, mem0 |-> <<>>,
     mem |-> <<>>, frame |-> <<>>, buf |-> <<>>, count |-> 0, tap |-> <<>>,
     used |-> <<>>]

Launch(c, m, t, co, i) ==
    [cpus |-> c, mem_mb |-> m, tap |-> t, console |-> co, initramfs |-> i]

\* The main thread at program point `pc` of VMM::configure: `cmdline` is
\* VMM.cmdline, `mem_cmdline` the command line written into guest memory,
\* `log` the effects so far, `next_vcpu` the loop index of configure_vcpus.
BootAt(pc, opts) ==
    [pc |-> pc, result |-> "none", opts |-> opts, cmdline |-> <<>>,
     mem_cmdline |-> <<>>, log |-> <<>>, next_vcpu |-> 0]

\* The run model starts when configure has returned Ok and run is called:
\* one vCPU and a network device, or two vCPUs and none, with 128 MiB.
Configured(net) ==
    LET vcpu == <<"create_vcpu", "gdt", "idt", "page_tables">>
        cmd == IF net THEN <<"default", "virtio_mmio.device=4K@0xd0000000:5">>
               ELSE <<"default">>
    IN [pc |-> "run", result |-> "Ok",
        opts |-> Launch(IF net THEN 1 ELSE 2, 128, net, FALSE, FALSE),
        cmdline |-> cmd, mem_cmdline |-> cmd,
        log |-> <<"mem_slot">>
                \o (IF net THEN <<"register_mmio">> ELSE <<>>)
                \o <<"kernel", "cmdline", "zeropage", "irq_chip", "irqfd4">>
                \o (IF net THEN <<"irqfd5">> ELSE <<>>)
                \o <<"mptable">> \o vcpu \o (IF net THEN <<>> ELSE vcpu),
        next_vcpu |-> IF net THEN 1 ELSE 2]

Init ==
    /\ netPresent \in BOOLEAN
    /\ boot = Configured(netPresent)
    /\ wire = NoTransfer
    /\ call = NoCall
    /\ vcpus = IF netPresent THEN {0} ELSE Vcpus
    /\ vcpuState = [v \in Vcpus |-> "unspawned"]
    /\ vcpuExit = [v \in Vcpus |-> NoExit]
    /\ hostState = "spawn"
    /\ hostResult = "none"
    /\ pending = <<>>
    /\ hostBuf = <<>>
    /\ hostLog = <<>>
    /\ serialOwner = NoThread
    /\ serialPoisoned = FALSE
    /\ mmioOwner = NoThread
    /\ mmioPoisoned = FALSE
    /\ netOwner = NoThread
    /\ netPoisoned = FALSE
    /\ fifo = <<>>
    /\ scr = 0
    /\ lsr = LSR_DEFAULT
    /\ avail = [q \in Queues |-> <<>>]
    /\ used = [q \in Queues |-> <<>>]
    /\ notif = [q \in Queues |-> TRUE]
    /\ offered = 0
    /\ interrupt_status = 0
    /\ txLog = <<>>

\* ------------------------------------------------------------ the mutexes

\* A guard that outlives its statement.
GuardKept(t) == t

\* A MutexGuard is a temporary of the statement that took it: it is dropped
\* when the statement ends, whether it ends normally or by unwinding.
GuardDropped(t) == NoThread

\* Mutex::lock().unwrap() on a poisoned mutex panics.
LockPanics(poisoned) == poisoned

\* ------------------------------------------------------------ vCPU thread

SetVcpu(v, st, ex) ==
    /\ vcpuState' = [vcpuState EXCEPT ![v] = st]
    /\ vcpuExit' = [vcpuExit EXCEPT ![v] = ex]

\* UnixStream::connect(socket_name).unwrap()
VcpuConnect(v) ==
    /\ vcpuState[v] = "connect"
    /\ \E ok \in BOOLEAN :
         SetVcpu(v, IF ok THEN "kvm_enter" ELSE "panicked", NoExit)
    /\ UNCHANGED <<hostVars, serialLockVars, mmioLockVars, netLockVars,
                   netPresent, serialVars, netVars>>

\* loop { let run = self.vcpu_fd.run(); ... : the thread enters KVM.
VcpuEnter(v) ==
    /\ vcpuState[v] = "kvm_enter"
    /\ SetVcpu(v, "in_kvm", NoExit)
    /\ UNCHANGED <<hostVars, serialLockVars, mmioLockVars, netLockVars,
                   netPresent, serialVars, netVars>>

\* vcpu_fd.run() returns a VM exit or an error.
KvmReturn(v) ==
    /\ vcpuState[v] = "in_kvm"
    /\ \E r \in GuestExits : SetVcpu(v, "exited", r)
    /\ UNCHANGED <<hostVars, serialLockVars, mmioLockVars, netLockVars,
                   netPresent, serialVars, netVars>>

\* Where the loop goes after the Shutdown | Hlt arm: the message is printed,
\* b"1" is written to the socket (unwrap) and the loop goes round again.
AfterHlt(ok) == IF ok THEN "kvm_enter" ELSE "panicked"

HandleHlt(v) ==
    /\ vcpuState[v] = "exited"
    /\ vcpuExit[v].kind \in {"Hlt", "Shutdown"}
    /\ \E ok \in BOOLEAN : SetVcpu(v, AfterHlt(ok), vcpuExit[v])
    /\ UNCHANGED <<hostVars, serialLockVars, mmioLockVars, netLockVars,
                   netPresent, serialVars, netVars>>

\* A loop that stops on EINTR / EAGAIN.
AfterRunError_Terminate(e) == IF e = "EFAULT" THEN "kvm_enter" ELSE "panicked"

\* A loop that stops on every other error.
AfterRunError_Stop(e) == IF e = "EFAULT" THEN "panicked" ELSE "kvm_enter"

\* Where the loop goes after the Err(e) arm: eprintln!, then round again.
AfterRunError(e) == "kvm_enter"

HandleRunError(v) ==
    /\ vcpuState[v] = "exited"
    /\ vcpuExit[v].kind \in RunErrors
    /\ SetVcpu(v, AfterRunError(vcpuExit[v].kind), vcpuExit[v])
    /\ UNCHANGED <<hostVars, serialLockVars, mmioLockVars, netLockVars,
                   netPresent, serialVars, netVars>>

\* The `_ =>` arm: eprintln!("Unhandled VM-Exit").
HandleOther(v) ==
    /\ vcpuState[v] = "exited"
    /\ vcpuExit[v].kind = "Other"
    /\ SetVcpu(v, "kvm_enter", vcpuExit[v])
    /\ UNCHANGED <<hostVars, serialLockVars, mmioLockVars, netLockVars,
                   netPresent, serialVars, netVars>>

\* IoOut / IoIn on a port outside the UART: println!, nothing else.
HandleIoOther(v) ==
    /\ vcpuState[v] = "exited"
    /\ vcpuExit[v].kind \in {"IoOut", "IoIn"}
    /\ ~IsSerialPort(vcpuExit[v].a)
    /\ SetVcpu(v, "kvm_enter", vcpuExit[v])
    /\ UNCHANGED <<hostVars, serialLockVars, mmioLockVars, netLockVars,
                   netPresent, serialVars, netVars>>

\* self.serial.lock().unwrap()
HandleIoSerialLock(v) ==
    /\ vcpuState[v] = "exited"
    /\ vcpuExit[v].kind \in {"IoOut", "IoIn"}
    /\ IsSerialPort(vcpuExit[v].a)
    /\ serialOwner = NoThread
    /\ IF LockPanics(serialPoisoned)
       THEN /\ SetVcpu(v, "panicked", vcpuExit[v])
            /\ UNCHANGED serialOwner
       ELSE /\ SetVcpu(v, "serial_cs", vcpuExit[v])
            /\ serialOwner' = v
    /\ UNCHANGED <<hostVars, serialPoisoned, mmioLockVars, netLockVars,
                   netPresent, serialVars, netVars>>

SetRdaBit(r) == IF r % 2 = 1 THEN r ELSE r + LSR_DATA_BIT
\* A read of RBR that leaves the data-ready bit as it was.
ClearRdaBit_Kept(r) == r
ClearRdaBit(r) == IF r % 2 = 1 THEN r - LSR_DATA_BIT ELSE r

\* Serial::read of the register at `off`.
SerialRead(off) ==
    CASE off = 0 -> IF fifo = <<>> THEN 0 ELSE Head(fifo)
      [] off = 5 -> lsr
      [] off = 7 -> scr
      [] OTHER -> 0

\* .serial.write(addr - SERIAL_PORT_BASE, data[0]).unwrap()  and
\* data[0] = ...serial.read(addr - SERIAL_PORT_BASE)
HandleIoSerial(v) ==
    /\ vcpuState[v] = "serial_cs"
    /\ LET off == vcpuExit[v].a - SERIAL_PORT_BASE
           d == vcpuExit[v].d
       IN IF vcpuExit[v].kind = "IoOut"
          THEN \E ok \in BOOLEAN :
                 /\ SetVcpu(v, IF ok THEN "kvm_enter" ELSE "panicked", vcpuExit[v])
                 /\ serialPoisoned' = (serialPoisoned \/ ~ok)
                 /\ scr' = IF ok /\ off = 7 THEN d ELSE scr
                 /\ UNCHANGED <<fifo, lsr>>
          ELSE /\ SetVcpu(v, "kvm_enter", [vcpuExit[v] EXCEPT !.d = SerialRead(off)])
               /\ fifo' = IF off = 0 /\ fifo # <<>> THEN Tail(fifo) ELSE fifo
               /\ lsr' = IF off = 0 /\ Len(fifo) <= 1 THEN ClearRdaBit(lsr) ELSE lsr
               /\ UNCHANGED <<serialPoisoned, scr>>
    /\ serialOwner' = GuardDropped(v)
    /\ UNCHANGED <<hostVars, mmioLockVars, netLockVars, netPresent, netVars>>

\* self.virtio_manager.lock().unwrap()
HandleMmioLock(v) ==
    /\ vcpuState[v] = "exited"
    /\ vcpuExit[v].kind \in {"MmioWrite", "MmioRead"}
    /\ mmioOwner = NoThread
    /\ IF LockPanics(mmioPoisoned)
       THEN /\ SetVcpu(v, "panicked", vcpuExit[v])
            /\ UNCHANGED mmioOwner
       ELSE /\ SetVcpu(v, "mmio_cs", vcpuExit[v])
            /\ mmioOwner' = v
    /\ UNCHANGED <<hostVars, serialLockVars, mmioPoisoned, netLockVars,
                   netPresent, serialVars, netVars>>

\* What IoManager::mmio_write / mmio_read returns for `addr`: the access is
\* routed to the device whose range covers it, and is an error when no
\* range does.
MmioAccess(addr) == IF Covered(addr) THEN "Ok" ELSE "Err"

\* .mmio_write(MmioAddress(addr), data).unwrap(): no device at addr.
HandleMmioMiss(v) ==
    /\ vcpuState[v] = "mmio_cs"
    /\ MmioAccess(vcpuExit[v].a) = "Err"
    /\ SetVcpu(v, "panicked", vcpuExit[v])
    /\ mmioOwner' = GuardDropped(v)
    /\ mmioPoisoned' = TRUE
    /\ UNCHANGED <<hostVars, serialLockVars, netLockVars, netPresent,
                   serialVars, netVars>>

\* The bus holds the device as Arc<Mutex<VirtioNet>>: the access locks it.
HandleMmioDevice(v) ==
    /\ vcpuState[v] = "mmio_cs"
    /\ MmioAccess(vcpuExit[v].a) = "Ok"
    /\ netOwner = NoThread
    /\ IF LockPanics(netPoisoned)
       THEN /\ SetVcpu(v, "panicked", vcpuExit[v])
            /\ mmioOwner' = GuardDropped(v)
            /\ mmioPoisoned' = TRUE
            /\ UNCHANGED netOwner
       ELSE /\ SetVcpu(v, "dev_cs", vcpuExit[v])
            /\ netOwner' = v
            /\ UNCHANGED <<mmioOwner, mmioPoisoned>>
    /\ UNCHANGED <<hostVars, serialLockVars, netPoisoned, netPresent,
                   serialVars, netVars>>

\* A vCPU that leaves the device with the device guard still alive.
LeaveDevice_KeepsDevice(v, st, ex) ==
    /\ SetVcpu(v, st, ex)
    /\ netOwner' = v
    /\ mmioOwner' = GuardDropped(v)

\* The vCPU leaves the device: both guards are dropped.
LeaveDevice(v, st, ex) ==
    /\ SetVcpu(v, st, ex)
    /\ netOwner' = GuardDropped(v)
    /\ mmioOwner' = GuardDropped(v)

\* The vCPU panics inside the device: both guards are dropped by unwinding
\* and both mutexes are poisoned.
PanicInDevice(v) ==
    /\ LeaveDevice(v, "panicked", vcpuExit[v])
    /\ netPoisoned' = TRUE
    /\ mmioPoisoned' = TRUE

\* virtio_mmio_read / virtio_mmio_write on a register other than QueueNotify
\* with a value different from 0.
DeviceRegister(v) ==
    /\ vcpuState[v] = "dev_cs"
    /\ LET e == vcpuExit[v] IN
       \/ /\ e.kind = "MmioRead"
          /\ LeaveDevice(v, "kvm_enter", [e EXCEPT !.d = interrupt_status])
          /\ UNCHANGED <<interrupt_status, txLog>>
       \/ /\ e.kind = "MmioWrite" /\ e.a = InterruptAckOff
          /\ LeaveDevice(v, "kvm_enter", e)
          /\ interrupt_status' = IF e.d = 1 THEN 0 ELSE interrupt_status
          /\ UNCHANGED txLog
       \/ /\ e.kind = "MmioWrite" /\ e.a = QueueNotifyOff /\ e.d = 0
          /\ LeaveDevice(v, "kvm_enter", e)
          /\ UNCHANGED <<interrupt_status, txLog>>
    /\ UNCHANGED <<hostVars, serialLockVars, mmioPoisoned, netPoisoned,
                   netPresent, serialVars, queueVars>>

\* queue_notify(val) with val # 0: the TX drain starts.
QueueNotifyStart(v) ==
    /\ vcpuState[v] = "dev_cs"
    /\ vcpuExit[v].kind = "MmioWrite"
    /\ vcpuExit[v].a = QueueNotifyOff
    /\ vcpuExit[v].d # 0
    /\ SetVcpu(v, "qn_disable", vcpuExit[v])
    /\ txLog' = <<>>
    /\ UNCHANGED <<hostVars, serialLockVars, mmioLockVars, netLockVars,
                   netPresent, serialVars, queueVars,
                   interrupt_status>>

\* queue.disable_notification(&*mem): on an error, println! and break.
QnDisable(v) ==
    /\ vcpuState[v] = "qn_disable"
    /\ \E ok \in BOOLEAN :
         IF ok
         THEN /\ SetVcpu(v, "qn_iter", vcpuExit[v])
              /\ notif' = [notif EXCEPT ![TXQ] = FALSE]
              /\ UNCHANGED <<netOwner, mmioOwner, txLog>>
         ELSE /\ LeaveDevice(v, "kvm_enter", vcpuExit[v])
              /\ txLog' = <<>>
              /\ UNCHANGED notif
    /\ UNCHANGED <<hostVars, serialLockVars, mmioPoisoned, netPoisoned,
                   netPresent, serialVars, avail, used, offered,
                   interrupt_status>>

\* One round of `while let Some(chain) = queue.iter(&*mem).unwrap().next()`.
QnIter(v) ==
    /\ vcpuState[v] = "qn_iter"
    /\ \E iterOk, tapOk, usedOk, needs \in BOOLEAN :
         IF ~iterOk
         THEN \* queue.iter(..).unwrap() panics
              /\ PanicInDevice(v)
              /\ UNCHANGED <<avail, used, txLog>>
         ELSE IF avail[TXQ] = <<>>
         THEN /\ SetVcpu(v, "qn_enable", vcpuExit[v])
              /\ UNCHANGED <<netLockVars, mmioLockVars, avail, used, txLog>>
         ELSE LET chain == Head(avail[TXQ]) IN
              /\ avail' = [avail EXCEPT ![TXQ] = Tail(@)]
              /\ IF ~AllInMemory(chain.descs)
                 THEN \* mem.read_slice(..).unwrap() panics
                      /\ PanicInDevice(v)
                      /\ UNCHANGED <<used, txLog>>
                 ELSE IF TotalLen(chain.descs) < VIRTIO_HDR_LEN
                 THEN \* println!("invalid net packet"); return;
                      /\ LeaveDevice(v, "kvm_enter", vcpuExit[v])
                      /\ txLog' = <<>>
                      /\ UNCHANGED <<used, mmioPoisoned, netPoisoned>>
                 ELSE /\ UNCHANGED <<vcpuVars, netLockVars, mmioLockVars>>
                      /\ used' = IF tapOk /\ usedOk
                                 THEN [used EXCEPT ![TXQ] =
                                         Append(@, <<chain.head, TxUsedLen>>)]
                                 ELSE used
                      /\ txLog' = IF ~tapOk THEN txLog
                                  ELSE txLog
                                       \o (IF usedOk THEN <<"used">> ELSE <<>>)
                                       \o (IF needs THEN <<"irq">> ELSE <<>>)
    /\ UNCHANGED <<hostVars, serialLockVars, netPresent, serialVars, notif,
                   offered, interrupt_status>>

\* if !queue.enable_notification(&*mem).unwrap_or_default() { break; }
QnEnable(v) ==
    /\ vcpuState[v] = "qn_enable"
    /\ \E ok \in BOOLEAN :
         /\ notif' = IF ok THEN [notif EXCEPT ![TXQ] = TRUE] ELSE notif
         /\ IF ok /\ avail[TXQ] # <<>>
            THEN /\ SetVcpu(v, "qn_disable", vcpuExit[v])
                 /\ UNCHANGED <<netOwner, mmioOwner, txLog>>
            ELSE /\ LeaveDevice(v, "kvm_enter", vcpuExit[v])
                 /\ txLog' = <<>>
    /\ UNCHANGED <<hostVars, serialLockVars, mmioPoisoned, netPoisoned,
                   netPresent, serialVars, avail, used, offered,
                   interrupt_status>>

\* ------------------------------------------------------------- the guest

GuestRuns == \E v \in Vcpus : vcpuState[v] = "in_kvm"

\* The driver publishes a descriptor chain on a queue's available ring.
GuestAddChain ==
    /\ GuestRuns
    /\ netPresent
    /\ offered < MaxChains
    /\ \E q \in Queues : \E ds \in QueueShapes(q) :
         avail' = [avail EXCEPT ![q] = Append(@, [head |-> offered, descs |-> ds])]
    /\ offered' = offered + 1
    /\ UNCHANGED <<vcpuVars, hostVars, serialLockVars, mmioLockVars,
                   netLockVars, netPresent, serialVars, used, notif, interrupt_status, txLog>>

\* ------------------------------------------------------ main thread: run

SetHost(st, res, pend, buf, log) ==
    /\ UNCHANGED <<boot, wire, call, vcpus>>
    /\ hostState' = st
    /\ hostResult' = res
    /\ pending' = pend
    /\ hostBuf' = buf
    /\ hostLog' = log

\* VMM::run returns Err(e).
HostReturn(e) == SetHost("returned", e, <<>>, <<>>, <<>>)

\* The handler of one event is over: next event of the round, or epoll again.
HostResume ==
    SetHost(IF pending = <<>> THEN "epoll_wait" ELSE "events", "none",
            pending, <<>>, <<>>)

\* for mut vcpu in self.vcpus.drain(..) { let _ = thread::Builder::new().spawn(..) }
\* With an empty list the loop body never runs.
HostSpawn ==
    /\ hostState = "spawn"
    /\ IF vcpus = {}
       THEN /\ hostState' = "raw"
            /\ UNCHANGED <<vcpus, vcpuState>>
       ELSE LET v == CHOOSE u \in vcpus : \A w \in vcpus : u <= w IN
            /\ \E ok \in BOOLEAN :
                 vcpuState' = [vcpuState EXCEPT ![v] = IF ok THEN "connect" ELSE "dropped"]
            /\ vcpus' = vcpus \ {v}
            /\ hostState' = IF vcpus = {v} THEN "raw" ELSE "spawn"
    /\ UNCHANGED <<boot, wire, call, hostResult, pending, hostBuf, hostLog>>
    /\ UNCHANGED <<vcpuExit, serialLockVars, mmioLockVars, netLockVars,
                   netPresent, serialVars, netVars>>

\* stdin_lock.set_raw_mode().map_err(Error::TerminalConfigure)?
HostRawMode ==
    /\ hostState = "raw"
    /\ \E ok \in BOOLEAN :
         IF ok THEN SetHost("getfd", "none", <<>>, <<>>, <<>>)
         ELSE HostReturn("TerminalConfigure")
    /\ UNCHANGED <<vcpuVars, serialLockVars, mmioLockVars, netLockVars,
                   netPresent, serialVars, netVars>>

\* Some(virtio_net) => Some(virtio_net.lock().unwrap().interface.as_raw_fd())
HostGetFd ==
    /\ hostState = "getfd"
    /\ netPresent => netOwner = NoThread
    /\ IF netPresent /\ LockPanics(netPoisoned)
       THEN SetHost("panicked", "none", <<>>, <<>>, <<>>)
       ELSE SetHost("epoll_wait", "none", <<>>, <<>>, <<>>)
    /\ UNCHANGED <<vcpuVars, serialLockVars, mmioLockVars, netLockVars,
                   netPresent, serialVars, netVars>>

\* The events one epoll::wait reports: stdin is in the epoll set from
\* VMM::new, the TAP descriptor from configure_net. In the TAP scenario the
\* terminal stays silent.
EventRounds == IF netPresent THEN {<<"tap">>} ELSE {<<"stdin">>}

\* epoll::wait(epoll_fd, -1, &mut events[..]) returns.
HostEpollWait ==
    /\ hostState = "epoll_wait"
    /\ \/ \E evs \in EventRounds : SetHost("events", "none", evs, <<>>, <<>>)
       \/ SetHost("epoll_intr", "none", <<>>, <<>>, <<>>)
       \/ SetHost("epoll_err", "none", <<>>, <<>>, <<>>)
    /\ UNCHANGED <<vcpuVars, serialLockVars, mmioLockVars, netLockVars,
                   netPresent, serialVars, netVars>>

\* What the loop does with Err(e) of epoll::wait when e.kind() is Interrupted.
AfterEpollInterrupted == "epoll_wait"

\* if e.kind() == io::ErrorKind::Interrupted { continue; }
HostEpollRetry ==
    /\ hostState = "epoll_intr"
    /\ IF AfterEpollInterrupted = "epoll_wait"
       THEN SetHost("epoll_wait", "none", <<>>, <<>>, <<>>)
       ELSE HostReturn("EpollError")
    /\ UNCHANGED <<vcpuVars, serialLockVars, mmioLockVars, netLockVars,
                   netPresent, serialVars, netVars>>

\* else { return Err(Error::EpollError(e)); }
HostEpollFail ==
    /\ hostState = "epoll_err"
    /\ HostReturn("EpollError")
    /\ UNCHANGED <<vcpuVars, serialLockVars, mmioLockVars, netLockVars,
                   netPresent, serialVars, netVars>>

StdinReads == {<<1>>, <<1, 2>>}

\* let count = stdin_lock.read_raw(&mut out).map_err(Error::StdinRead)?
HostStdinRead ==
    /\ hostState = "events"
    /\ pending # <<>> /\ Head(pending) = "stdin"
    /\ \/ \E bytes \in StdinReads :
            SetHost("stdin_lock", "none", Tail(pending), bytes, <<>>)
       \/ HostReturn("StdinRead")
    /\ UNCHANGED <<vcpuVars, serialLockVars, mmioLockVars, netLockVars,
                   netPresent, serialVars, netVars>>

\* self.serial.lock().unwrap()
HostSerialLock ==
    /\ hostState = "stdin_lock"
    /\ serialOwner = NoThread
    /\ IF LockPanics(serialPoisoned)
       THEN /\ SetHost("panicked", "none", <<>>, <<>>, <<>>)
            /\ UNCHANGED serialOwner
       ELSE /\ SetHost("enq", "none", pending, hostBuf, <<>>)
            /\ serialOwner' = HostThread
    /\ UNCHANGED <<vcpuVars, serialPoisoned, mmioLockVars, netLockVars,
                   netPresent, serialVars, netVars>>

\* An enqueue that stores nothing.
EnqueueRawBytes_Lost(f, bytes) == f

\* Serial::enqueue_raw_bytes puts the bytes at the back of the RX FIFO.
EnqueueRawBytes(f, bytes) == f \o bytes

\* The bytes of `bytes` the FIFO `f` has room for.
Accepted(f, bytes) == SubSeq(bytes, 1, Min(FifoSize - Len(f), Len(bytes)))

\* .serial.enqueue_raw_bytes(&out[..count]): a full FIFO makes the call fail;
\* otherwise the bytes that fit enter the FIFO and the count the call
\* returns is dropped with the rest of the bytes.
HostEnqueue ==
    /\ hostState = "enq"
    /\ IF Len(fifo) = FifoSize
       THEN /\ HostReturn("StdinWrite")
            /\ serialOwner' = GuardDropped(HostThread)
            /\ UNCHANGED <<fifo, lsr>>
       ELSE /\ SetHost("enq_trig", "none", pending, Accepted(fifo, hostBuf),
                       <<"enqueue">>)
            /\ fifo' = EnqueueRawBytes(fifo, Accepted(fifo, hostBuf))
            /\ lsr' = SetRdaBit(lsr)
            /\ UNCHANGED serialOwner
    /\ UNCHANGED <<vcpuVars, serialPoisoned, mmioLockVars, netLockVars,
                   netPresent, scr, netVars>>

\* Inside enqueue_raw_bytes the device raises its interrupt, when the guest
\* has enabled it: EventFdTrigger::trigger, self.write(1).
HostTrigger ==
    /\ hostState = "enq_trig"
    /\ \/ /\ SetHost("enq_ret", "none", pending, hostBuf, Append(hostLog, "irq4"))
          /\ UNCHANGED serialOwner
       \/ /\ SetHost("enq_ret", "none", pending, hostBuf, hostLog)
          /\ UNCHANGED serialOwner
       \/ /\ HostReturn("StdinWrite")
          /\ serialOwner' = GuardDropped(HostThread)
    /\ UNCHANGED <<vcpuVars, serialPoisoned, mmioLockVars, netLockVars,
                   netPresent, serialVars, netVars>>

\* .map_err(Error::StdinWrite)?; : the statement ends, the guard is dropped.
HostEnqueueDone ==
    /\ hostState = "enq_ret"
    /\ HostResume
    /\ serialOwner' = GuardDropped(HostThread)
    /\ UNCHANGED <<vcpuVars, serialPoisoned, mmioLockVars, netLockVars,
                   netPresent, serialVars, netVars>>

\* ------------------------------------------------ main thread: process_tap

\* A main thread that enters the device without waiting for its mutex.
NetMutexIgnored == TRUE

\* Mutex<VirtioNet>::lock() returns once no thread holds the mutex.
NetMutexFree == netOwner = NoThread

\* self.virtio_net.as_ref().unwrap().lock().unwrap()
HostTapLock ==
    /\ hostState = "events"
    /\ pending # <<>> /\ Head(pending) = "tap"
    /\ NetMutexFree
    /\ IF LockPanics(netPoisoned)
       THEN /\ SetHost("panicked", "none", <<>>, <<>>, <<>>)
            /\ UNCHANGED netOwner
       ELSE /\ SetHost("tap_read", "none", Tail(pending), <<>>, <<>>)
            /\ netOwner' = HostThread
    /\ UNCHANGED <<vcpuVars, serialLockVars, mmioLockVars, netPoisoned,
                   netPresent, serialVars, netVars>>

\* process_tap returns Err(e): the guard is dropped, `?` makes run return.
TapFail ==
    /\ HostReturn("VirtioNet")
    /\ netOwner' = GuardDropped(HostThread)

\* let read_size = match self.interface.read(buffer) { .. Err(_) => break }
HostTapRead ==
    /\ hostState = "tap_read"
    /\ \/ \E size \in FrameSizes :
            SetHost("tap_frame", "none", pending, <<size>>, hostLog)
       \/ SetHost("tap_notify", "none", pending, <<>>, hostLog)
    /\ UNCHANGED <<vcpuVars, serialLockVars, mmioLockVars, netLockVars,
                   netPresent, serialVars, queueVars, interrupt_status, txLog>>

\* write_frame_to_guest(buffer, read_size)
HostTapFrame ==
    /\ hostState = "tap_frame"
    /\ \E iterOk, usedOk \in BOOLEAN :
         IF ~iterOk
         THEN /\ TapFail
              /\ UNCHANGED <<avail, used>>
         ELSE IF avail[RXQ] = <<>>
         THEN \* Ok(false)
              /\ SetHost("tap_enable", "none", pending, hostBuf, hostLog)
              /\ UNCHANGED <<netOwner, avail, used>>
         ELSE LET chain == Head(avail[RXQ])
                  r == RxFill(chain.descs, hostBuf[1], 0)
              IN /\ avail' = [avail EXCEPT ![RXQ] = Tail(@)]
                 /\ IF r.ok /\ usedOk
                    THEN /\ used' = [used EXCEPT ![RXQ] =
                                       Append(@, <<chain.head, r.count>>)]
                         /\ SetHost("tap_read", "none", pending, <<>>,
                                    Append(hostLog, "used"))
                         /\ UNCHANGED netOwner
                    ELSE /\ TapFail
                         /\ UNCHANGED used
    /\ UNCHANGED <<vcpuVars, serialLockVars, mmioLockVars, netPoisoned,
                   netPresent, serialVars, notif, offered,
                   interrupt_status, txLog>>

\* A drain that stops whenever a frame found no chain.
AfterEnable_Stop(more) == "tap_notify"

\* A drain that reads the next frame whether or not a chain has come.
AfterEnable_Again(more) == "tap_read"

\* Queue::enable_notification returns whether the guest has made chains
\* available in the meantime: Ok(true) keeps the loop going, Ok(false) breaks.
AfterEnable(more) == IF more THEN "tap_read" ELSE "tap_notify"

\* && !self.device_config.queues[0].enable_notification(..)? { break; }
\* When the loop goes on, the frame that found no chain is still in `buffer`
\* and is overwritten by the next read.
HostTapEnable ==
    /\ hostState = "tap_enable"
    /\ \E ok \in BOOLEAN :
         IF ~ok
         THEN /\ TapFail
              /\ UNCHANGED notif
         ELSE /\ notif' = [notif EXCEPT ![RXQ] = TRUE]
              /\ LET next == AfterEnable(avail[RXQ] # <<>>) IN
                 SetHost(next, "none", pending,
                         IF next = "tap_read" THEN hostBuf ELSE <<>>, hostLog)
              /\ UNCHANGED netOwner
    /\ UNCHANGED <<vcpuVars, serialLockVars, mmioLockVars, netPoisoned,
                   netPresent, serialVars, avail, used, offered,
                   interrupt_status, txLog>>

\* if self.device_config.queues[0].needs_notification(..)? {
HostTapNotify ==
    /\ hostState = "tap_notify"
    /\ \/ TapFail
       \/ /\ SetHost("tap_status", "none", pending, <<>>, hostLog)
          /\ UNCHANGED netOwner
       \/ /\ SetHost("tap_ret", "none", pending, <<>>, hostLog)
          /\ UNCHANGED netOwner
    /\ UNCHANGED <<vcpuVars, serialLockVars, mmioLockVars, netPoisoned,
                   netPresent, serialVars, netVars>>

\* A drain that leaves InterruptStatus as it was.
StatusStore_Skip(old) == old

\* self.device_config.interrupt_status.store(1, Ordering::SeqCst)
StatusStore(old) == 1

HostTapStatus ==
    /\ hostState = "tap_status"
    /\ interrupt_status' = StatusStore(interrupt_status)
    /\ SetHost("tap_irq", "none", pending, <<>>, Append(hostLog, "status"))
    /\ UNCHANGED <<vcpuVars, serialLockVars, mmioLockVars, netLockVars,
                   netPresent, serialVars, queueVars, txLog>>

\* self.guest_irq_fd.write(1).unwrap_or_else(..): a failure is only logged.
HostTapIrq ==
    /\ hostState = "tap_irq"
    /\ \E ok \in BOOLEAN :
         SetHost("tap_ret", "none", pending, <<>>,
                 IF ok THEN Append(hostLog, "irq") ELSE hostLog)
    /\ UNCHANGED <<vcpuVars, serialLockVars, mmioLockVars, netLockVars,
                   netPresent, serialVars, netVars>>

\* Ok(()) : process_tap returns, the guard is dropped.
HostTapDone ==
    /\ hostState = "tap_ret"
    /\ HostResume
    /\ netOwner' = GuardDropped(HostThread)
    /\ UNCHANGED <<vcpuVars, serialLockVars, mmioLockVars, netPoisoned,
                   netPresent, serialVars, netVars>>

\* ------------------------------------------------------------ the system

VcpuStep(v) ==
    \/ VcpuConnect(v)
    \/ VcpuEnter(v)
    \/ KvmReturn(v)
    \/ HandleHlt(v)
    \/ HandleRunError(v)
    \/ HandleOther(v)
    \/ HandleIoOther(v)
    \/ HandleIoSerialLock(v)
    \/ HandleIoSerial(v)
    \/ HandleMmioLock(v)
    \/ HandleMmioMiss(v)
    \/ HandleMmioDevice(v)
    \/ DeviceRegister(v)
    \/ QueueNotifyStart(v)
    \/ QnDisable(v)
    \/ QnIter(v)
    \/ QnEnable(v)

HostStep ==
    \/ HostSpawn
    \/ HostRawMode
    \/ HostGetFd
    \/ HostEpollWait
    \/ HostEpollRetry
    \/ HostEpollFail
    \/ HostStdinRead
    \/ HostSerialLock
    \/ HostEnqueue
    \/ HostTrigger
    \/ HostEnqueueDone
    \/ HostTapLock
    \/ HostTapRead
    \/ HostTapFrame
    \/ HostTapEnable
    \/ HostTapNotify
    \/ HostTapStatus
    \/ HostTapIrq
    \/ HostTapDone

Next ==
    \/ \E v \in Vcpus : VcpuStep(v)
    \/ HostStep
    \/ GuestAddChain

Spec == Init /\ [][Next]_vars

TypeOK ==
    /\ vcpuState \in [Vcpus -> VcpuStates]
    /\ hostState \in HostStates
    /\ hostResult \in HostResults
    /\ serialOwner \in Vcpus \cup {HostThread, NoThread}
    /\ mmioOwner \in Vcpus \cup {NoThread}
    /\ netOwner \in Vcpus \cup {HostThread, NoThread}
    /\ Len(fifo) <= FifoSize
    /\ interrupt_status \in {0, 1}

\* The scheduler runs every thread that can take a step.
FairSpec ==
    /\ Spec
    /\ \A v \in Vcpus : WF_vars(VcpuStep(v))
    /\ WF_vars(HostStep)

\* ------------------------------------------------------------- properties

Halts == {"Hlt", "Shutdown"}
Retryable == {"EINTR", "EAGAIN"}
MmioKinds == {"MmioWrite", "MmioRead"}

\* v leaves the match on the exit it is handling.
Dispatched(v) == vcpuState[v] = "exited" /\ vcpuState'[v] # "exited"

DevicesUntouched ==
    UNCHANGED <<serialVars, serialLockVars, mmioLockVars, netLockVars, netVars>>

\* C1: a vCPU whose last exit was Hlt or Shutdown is Terminated: it is never
\* again at the top of the loop, about to enter KVM.
C1_HaltTerminates ==
    \A v \in Vcpus :
        vcpuExit[v].kind \in Halts => vcpuState[v] \in {"exited", "panicked"}

\* C2: once a vCPU has observed Hlt or Shutdown, VMM::run eventually ends.
\* The claim asks for more, a return with success, which VMM::run has no
\* path to; ending with an error or a panic is accepted here as well, so
\* that only a run that goes on for ever violates the property.
C2_RunEndsAfterHalt ==
    (\E v \in Vcpus : vcpuState[v] = "exited" /\ vcpuExit[v].kind \in Halts)
        ~> (hostState \in {"returned", "panicked"})

\* C3 as stated: a vCPU whose KVM run failed with an error other than EINTR
\* or EAGAIN is terminated: it is never again about to enter KVM.
C3_FatalErrorTerminates ==
    \A v \in Vcpus :
        (vcpuExit[v].kind \in RunErrors \ Retryable)
            => vcpuState[v] \in {"exited", "panicked"}

\* C3 amended: a KVM run error other than EINTR or EAGAIN is logged and the
\* vCPU goes round the loop again, touching no device.
C3_FatalErrorRetries ==
    [][\A v \in Vcpus :
          (Dispatched(v) /\ vcpuExit[v].kind \in RunErrors \ Retryable)
              => (vcpuState'[v] = "kvm_enter" /\ DevicesUntouched)]_vars

C3_Witness ==
    \E v \in Vcpus : vcpuState[v] = "kvm_enter" /\ vcpuExit[v].kind = "EFAULT"

\* C4: on EINTR or EAGAIN the vCPU goes round the loop again without touching
\* the Serial or the MMIO devices, and an interrupted epoll wait is retried
\* instead of being returned as an error.
C4_InterruptedRetries ==
    [][/\ \A v \in Vcpus :
            (Dispatched(v) /\ vcpuExit[v].kind \in Retryable)
                => (vcpuState'[v] = "kvm_enter" /\ DevicesUntouched)
       /\ (hostState = "epoll_intr" /\ hostState' # "epoll_intr")
            => (hostState' = "epoll_wait" /\ hostResult' = "none")]_vars

C4_Witness ==
    \E v \in Vcpus : vcpuState[v] = "kvm_enter" /\ vcpuExit[v].kind \in Retryable

\* C5: no virtio error stops the VMM: VMM::run never returns a VirtioNet
\* error and no thread panics inside the device.
C5_VirtioErrorsNeverStop ==
    /\ hostResult # "VirtioNet"
    /\ ~netPoisoned

\* C6: a vCPU handling an MMIO exit whose address no device covers does not
\* panic.
C6_UncoveredMmioHarmless ==
    \A v \in Vcpus :
        (vcpuExit[v].kind \in MmioKinds /\ ~Covered(vcpuExit[v].a))
            => vcpuState[v] # "panicked"

\* C7: a vCPU that is inside KVM run, or about to enter it, holds neither the
\* Serial lock nor the MMIO bus lock.
C7_NoLockAcrossRun ==
    \A v \in Vcpus :
        vcpuState[v] \in {"kvm_enter", "in_kvm"}
            => (serialOwner # v /\ mmioOwner # v)

C7_Witness ==
    /\ vcpuState[0] = "in_kvm"
    /\ used[TXQ] # <<>>
    /\ mmioOwner = NoThread

IrqJustRaised == hostLog # <<>> /\ hostLog[Len(hostLog)] = "irq4"

IsSuffix(t, f) ==
    Len(t) <= Len(f) /\ SubSeq(f, Len(f) - Len(t) + 1, Len(f)) = t

\* C8 as stated: when the stdin pump writes the irq 4 eventfd, the bytes have
\* been enqueued and the Serial lock has been released.
C8_LockReleasedBeforeIrq ==
    IrqJustRaised
        => (hostLog = <<"enqueue", "irq4">> /\ serialOwner # HostThread)

\* C8 amended: when the stdin pump writes the irq 4 eventfd, the bytes are in
\* the RX FIFO already and the main thread still holds the Serial lock.
C8_EnqueueBeforeIrqUnderLock ==
    IrqJustRaised
        => /\ hostLog = <<"enqueue", "irq4">>
           /\ IsSuffix(hostBuf, fifo)
           /\ serialOwner = HostThread

C8_Witness == hostState = "enq_ret" /\ IrqJustRaised /\ fifo = <<1, 2>>

TapStates ==
    {"tap_read", "tap_frame", "tap_enable", "tap_notify", "tap_status",
     "tap_irq", "tap_ret"}

DevStates == {"dev_cs", "qn_disable", "qn_iter", "qn_enable"}

\* C9 as stated: whoever is inside the VirtioNet device holds the MMIO bus
\* lock, so the RX drain and the TX drain never run at the same time.
C9_DeviceUnderBusLock ==
    /\ hostState \in TapStates => mmioOwner = HostThread
    /\ \A v \in Vcpus : vcpuState[v] \in DevStates => mmioOwner = v

\* C9 amended: whoever is inside the VirtioNet device holds the device's own
\* mutex (a vCPU holds the MMIO bus lock as well, the main thread does not),
\* so the RX drain and the TX drain never run at the same time.
C9_DeviceUnderOwnMutex ==
    /\ hostState \in TapStates => (netOwner = HostThread /\ mmioOwner # HostThread)
    /\ \A v \in Vcpus :
          vcpuState[v] \in DevStates => (netOwner = v /\ mmioOwner = v)
    /\ ~(hostState \in TapStates /\ \E v \in Vcpus : vcpuState[v] \in DevStates)

C9_Witness ==
    /\ hostState = "tap_frame"
    /\ \E v \in Vcpus :
          /\ vcpuState[v] = "mmio_cs"
          /\ vcpuExit[v].a = QueueNotifyOff
          /\ mmioOwner = v

\* C10: in one RX drain the used-ring entries come first, then
\* InterruptStatus bit 0 is set, then the irq eventfd is written: the eventfd
\* is written only right after the store, with the bit still set, and no
\* used-ring entry is added after the store.
C10_RxInterruptOrder ==
    hostState \in TapStates =>
        \A i \in 1..Len(hostLog) :
            /\ hostLog[i] = "irq"
                  => (i > 1 /\ hostLog[i - 1] = "status" /\ interrupt_status = 1)
            /\ hostLog[i] = "status"
                  => (interrupt_status = 1
                      /\ \A j \in (i + 1)..Len(hostLog) : hostLog[j] # "used")

C10_Witness == hostLog = <<"used", "status", "irq">>

\* C11: in a TX drain, when the irq eventfd has just been written for a chain
\* put on the used ring, InterruptStatus bit 0 is set.
C11_TxIrqAfterStatus ==
    (txLog # <<>> /\ txLog[Len(txLog)] = "irq") => interrupt_status = 1

\* C12: every entry the TX drain puts on the used ring carries length 0.
C12_TxUsedLenZero ==
    \A i \in 1..Len(used[TXQ]) : used[TXQ][i][2] = 0

\* The host leaves the enable_notification step of process_tap without an
\* error.
EnableReturned ==
    hostState = "tap_enable" /\ hostState' \notin {"tap_enable", "returned"}

\* C15 as stated: when a frame finds no RX chain, notifications are enabled
\* on the RX queue and the drain stops: no further frame is read.
C15_NoChainStopsDrain ==
    [][EnableReturned => (notif'[RXQ] /\ hostState' = "tap_notify")]_vars

\* C15 amended: when a frame finds no RX chain, notifications are enabled on
\* the RX queue; the drain stops if the RX queue is still empty then, and
\* goes on with the next frame if the guest has published a chain meanwhile.
\* Once the drain has stopped, no frame is read before process_tap returns.
C15_NoChainStopsUnlessRefilled ==
    [][/\ EnableReturned =>
            /\ notif'[RXQ]
            /\ hostState' = (IF avail[RXQ] = <<>> THEN "tap_notify" ELSE "tap_read")
       /\ hostState \in {"tap_notify", "tap_status", "tap_irq", "tap_ret"} =>
            hostState' \notin {"tap_read", "tap_frame", "tap_enable"}]_vars

C15_Witness ==
    /\ hostState = "tap_read"
    /\ hostBuf # <<>>
    /\ avail[RXQ] # <<>>
    /\ notif[RXQ]

\* ------------------------------------------------ main thread: configure

\* Memory sizes in MiB given to --memory.
MemSizesMb == {1, 128, 3328, 3329, 4096}

\* 32-bit words in one MiB: mem_size = mem_size_mb << 20 bytes.
WordsPerMb == 262144

MemWords(mb) == mb * WordsPerMb

LaunchSet ==
    {Launch(c, m, t, co, i) :
        c \in 0..Cardinality(Vcpus), m \in MemSizesMb,
        t \in BOOLEAN, co \in BOOLEAN, i \in BOOLEAN}

\* A configure that registers the interrupts after creating the vCPUs.
ConfigureSteps_IoLast ==
    <<"configure_console", "configure_memory", "load_default_cmdline",
      "configure_net", "kernel_setup", "configure_vcpus", "configure_io">>

\* A configure that sets the network up after the kernel.
ConfigureSteps_NetLate ==
    <<"configure_console", "configure_memory", "load_default_cmdline",
      "kernel_setup", "configure_net", "configure_io", "configure_vcpus">>

\* A configure that redirects the console at the end.
ConfigureSteps_ConsoleLast ==
    <<"configure_memory", "load_default_cmdline", "configure_net",
      "kernel_setup", "configure_io", "configure_vcpus", "configure_console">>

\* The body of VMM::configure, statement by statement.
ConfigureSteps ==
    <<"configure_console", "configure_memory", "load_default_cmdline",
      "configure_net", "kernel_setup", "configure_io", "configure_vcpus">>

StepAfter(step) ==
    LET i == CHOOSE k \in 1..Len(ConfigureSteps) : ConfigureSteps[k] = step
    IN IF i = Len(ConfigureSteps) THEN "done" ELSE ConfigureSteps[i + 1]

\* The statement `step` returned Ok: the next statement, or Ok(()) at the end.
Advance(b, step) ==
    [b EXCEPT !.pc = StepAfter(step),
              !.result = IF StepAfter(step) = "done" THEN "Ok" ELSE b.result]

Logged(b, evs) == [b EXCEPT !.log = @ \o evs]

\* A `?` that notes the error and lets configure go on.
Try_GoOn(ok, b, err) == IF ok THEN b ELSE [b EXCEPT !.result = err]

\* configure returns Err(err); what was done before stays done.
Fail(b, err) == [b EXCEPT !.pc = "done", !.result = err]

\* The `?` operator: on Err configure returns the error at once.
Try(ok, b, err) == IF ok THEN b ELSE Fail(boot, err)

BootInit ==
    /\ boot \in {BootAt(ConfigureSteps[1], o) : o \in LaunchSet}
    /\ wire = NoTransfer
    /\ call = NoCall
    /\ netPresent = FALSE
    /\ vcpus = {}
    /\ vcpuState = [v \in Vcpus |-> "unspawned"]
    /\ vcpuExit = [v \in Vcpus |-> NoExit]
    /\ hostState = "configure"
    /\ hostResult = "none"
    /\ pending = <<>>
    /\ hostBuf = <<>>
    /\ hostLog = <<>>
    /\ serialOwner = NoThread
    /\ serialPoisoned = FALSE
    /\ mmioOwner = NoThread
    /\ mmioPoisoned = FALSE
    /\ netOwner = NoThread
    /\ netPoisoned = FALSE
    /\ fifo = <<>>
    /\ scr = 0
    /\ lsr = LSR_DEFAULT
    /\ avail = [q \in Queues |-> <<>>]
    /\ used = [q \in Queues |-> <<>>]
    /\ notif = [q \in Queues |-> TRUE]
    /\ offered = 0
    /\ interrupt_status = 0
    /\ txLog = <<>>

\* What a configure step leaves alone.
BootFrame ==
    UNCHANGED <<wire, call, hostState, hostResult, pending, hostBuf, hostLog, vcpuVars,
                serialLockVars, mmioLockVars, netLockVars, serialVars, netVars>>

\* configure_console: with --console the Serial is replaced by one writing
\* to the file.
ConfigureConsole ==
    /\ boot.pc = "configure_console"
    /\ IF boot.opts.console
       THEN \E err \in {"Ok", "ConsoleError", "SerialCreation"} :
              boot' = Try(err = "Ok",
                          Advance(Logged(boot, <<"serial_replace">>),
                                  "configure_console"), err)
       ELSE boot' = Advance(boot, "configure_console")
    /\ UNCHANGED <<vcpus, netPresent>>
    /\ BootFrame

\* configure_memory: one region [0, mem_size), registered as a KVM slot.
ConfigureMemory ==
    /\ boot.pc = "configure_memory"
    /\ \E err \in {"Ok", "Memory", "KvmIoctl"} :
         boot' = Try(err = "Ok",
                     Advance(Logged(boot, <<"mem_slot">>), "configure_memory"),
                     err)
    /\ UNCHANGED <<vcpus, netPresent>>
    /\ BootFrame

\* load_default_cmdline: self.cmdline.insert_str(kernel::DEFAULT_CMDLINE)
LoadDefaultCmdline ==
    /\ boot.pc = "load_default_cmdline"
    /\ boot' = Advance([boot EXCEPT !.cmdline = @ \o <<"default">>],
                       "load_default_cmdline")
    /\ UNCHANGED <<vcpus, netPresent>>
    /\ BootFrame

\* add_virtio_mmio_device(0x1000, virtio_address, 5, None)
VirtioCmdline == <<"virtio_mmio.device=4K@0xd0000000:5">>

\* configure_net: nothing without --tap; otherwise the device is created,
\* stored in self.virtio_net, registered on the MMIO bus and appended to
\* the command line. The outcome names the first statement that fails.
ConfigureNet ==
    /\ boot.pc = "configure_net"
    /\ IF ~boot.opts.tap
       THEN /\ boot' = Advance(boot, "configure_net")
            /\ UNCHANGED netPresent
       ELSE \E err \in {"Ok", "VirtioNet", "IoManager", "Cmdline"} :
              /\ netPresent' = (err # "VirtioNet")
              /\ boot' =
                   IF err = "Cmdline"
                   THEN Fail(Logged(boot, <<"register_mmio">>), err)
                   ELSE Try(err = "Ok",
                            Advance([Logged(boot, <<"register_mmio">>)
                                        EXCEPT !.cmdline = @ \o VirtioCmdline],
                                    "configure_net"),
                            err)
    /\ UNCHANGED vcpus
    /\ BootFrame

\* kernel_setup: File::open and Elf::load put the kernel image in guest
\* memory.
KernelSetup ==
    /\ boot.pc = "kernel_setup"
    /\ \E err \in {"Ok", "IO", "KernelLoad"} :
         boot' = Try(err = "Ok",
                     [Logged(boot, <<"kernel">>) EXCEPT !.pc = "build_bootparams"],
                     err)
    /\ UNCHANGED <<vcpus, netPresent>>
    /\ BootFrame

\* HIMEM_START as a word address.
HimemWord == WordsPerMb

\* build_bootparams: the second e820 entry needs last_addr >= himem_start.
BuildBootparams ==
    /\ boot.pc = "build_bootparams"
    /\ boot' = Try(MemWords(boot.opts.mem_mb) - 1 >= HimemWord,
                   [boot EXCEPT !.pc = "load_cmdline"],
                   "HimemStartPastMemEnd")
    /\ UNCHANGED <<vcpus, netPresent>>
    /\ BootFrame

\* load_cmdline(guest_memory, CMDLINE_START, cmdline).map_err(KernelLoad)?
LoadCmdline ==
    /\ boot.pc = "load_cmdline"
    /\ \E ok \in BOOLEAN :
         boot' = Try(ok,
                     [Logged(boot, <<"cmdline">>)
                         EXCEPT !.pc = "load_initramfs",
                                !.mem_cmdline = boot.cmdline],
                     "KernelLoad")
    /\ UNCHANGED <<vcpus, netPresent>>
    /\ BootFrame

\* if let Some(initramfs_config) = initramfs { load_initramfs(..)?; .. }
LoadInitramfs ==
    /\ boot.pc = "load_initramfs"
    /\ IF boot.opts.initramfs
       THEN \E ok \in BOOLEAN :
              boot' = Try(ok,
                          [Logged(boot, <<"initramfs">>)
                              EXCEPT !.pc = "write_bootparams"],
                          "InitramfsLoad")
       ELSE boot' = [boot EXCEPT !.pc = "write_bootparams"]
    /\ UNCHANGED <<vcpus, netPresent>>
    /\ BootFrame

\* LinuxBootConfigurator::write_bootparams: the zero page, e820 included.
WriteBootparams ==
    /\ boot.pc = "write_bootparams"
    /\ \E ok \in BOOLEAN :
         boot' = Try(ok,
                     Advance(Logged(boot, <<"zeropage">>), "kernel_setup"),
                     "BootConfigure")
    /\ UNCHANGED <<vcpus, netPresent>>
    /\ BootFrame

\* configure_io: create_irq_chip, then register_irqfd for the Serial (4) and,
\* when self.virtio_net is Some, for the network device (5).
ConfigureIo ==
    /\ boot.pc = "configure_io"
    /\ \/ boot' = Try(FALSE, boot, "KvmIoctl")
       \/ boot' = Fail(Logged(boot, <<"irq_chip">>), "IrqRegister")
       \/ boot' = Advance(Logged(boot, <<"irq_chip", "irqfd4">>
                                       \o (IF netPresent THEN <<"irqfd5">>
                                           ELSE <<>>)),
                          "configure_io")
    /\ UNCHANGED <<vcpus, netPresent>>
    /\ BootFrame

\* configure_vcpus, before the loop: setup_mptable and get_supported_cpuid.
ConfigureVcpus ==
    /\ boot.pc = "configure_vcpus"
    /\ \E err \in {"Ok", "Vcpu", "KvmIoctl"} :
         boot' = Try(err = "Ok",
                     [Logged(boot, <<"mptable">>)
                         EXCEPT !.pc = "vcpu_new", !.next_vcpu = 0],
                     err)
    /\ UNCHANGED <<vcpus, netPresent>>
    /\ BootFrame

\* for index in 0..num_vcpus { Vcpu::new(..)?: vm_fd.create_vcpu(index)
VcpuNew ==
    /\ boot.pc = "vcpu_new"
    /\ IF boot.next_vcpu = boot.opts.cpus
       THEN boot' = Advance(boot, "configure_vcpus")
       ELSE \E ok \in BOOLEAN :
              boot' = Try(ok,
                          [Logged(boot, <<"create_vcpu">>)
                              EXCEPT !.pc = "vcpu_sregs"],
                          "Vcpu")
    /\ UNCHANGED <<vcpus, netPresent>>
    /\ BootFrame

\* A configure_sregs that leaves the page tables out.
SregsWrites_NoTables == <<"gdt", "idt">>

\* configure_sregs writes the GDT, the IDT and the page tables to guest
\* memory.
SregsWrites == <<"gdt", "idt", "page_tables">>

\* configure_cpuid, configure_msrs, configure_regs, configure_sregs; a failing
\* write leaves the earlier ones in guest memory.
VcpuSregs ==
    /\ boot.pc = "vcpu_sregs"
    /\ \E n \in 0..Len(SregsWrites) :
         boot' = IF n = Len(SregsWrites)
                 THEN [Logged(boot, SregsWrites) EXCEPT !.pc = "vcpu_push"]
                 ELSE Fail(Logged(boot, SubSeq(SregsWrites, 1, n)), "Vcpu")
    /\ UNCHANGED <<vcpus, netPresent>>
    /\ BootFrame

\* configure_fpu, configure_lapic, self.vcpus.push(vcpu)
VcpuPush ==
    /\ boot.pc = "vcpu_push"
    /\ \E ok \in BOOLEAN :
         /\ boot' = Try(ok,
                        [boot EXCEPT !.pc = "vcpu_new", !.next_vcpu = @ + 1],
                        "Vcpu")
         /\ vcpus' = IF ok THEN vcpus \cup {boot.next_vcpu} ELSE vcpus
    /\ UNCHANGED netPresent
    /\ BootFrame

\* A run that goes back to configure_net while it starts the threads.
CallRun_HotPlug ==
    /\ boot.pc = "done"
    /\ hostState = "configure"
    /\ boot' = [boot EXCEPT !.pc = "configure_net"]
    /\ hostState' = "spawn"
    /\ UNCHANGED <<wire, call, vcpus, netPresent, hostResult, pending, hostBuf, hostLog,
                   vcpuVars, serialLockVars, mmioLockVars, netLockVars,
                   serialVars, netVars>>

\* configure has returned and VMM::run is called. main calls it only after
\* Ok; run is a public method, so a call after Err is explored as well.
CallRun ==
    /\ boot.pc = "done"
    /\ hostState = "configure"
    /\ boot' = [boot EXCEPT !.pc = "run"]
    /\ hostState' = "spawn"
    /\ UNCHANGED <<wire, call, vcpus, netPresent, hostResult, pending, hostBuf, hostLog,
                   vcpuVars, serialLockVars, mmioLockVars, netLockVars,
                   serialVars, netVars>>

BootNext ==
    \/ ConfigureConsole
    \/ ConfigureMemory
    \/ LoadDefaultCmdline
    \/ ConfigureNet
    \/ KernelSetup
    \/ BuildBootparams
    \/ LoadCmdline
    \/ LoadInitramfs
    \/ WriteBootparams
    \/ ConfigureIo
    \/ ConfigureVcpus
    \/ VcpuNew
    \/ VcpuSregs
    \/ VcpuPush
    \/ CallRun
    \/ HostSpawn

BootSpec == BootInit /\ [][BootNext]_vars

\* ------------------------------------------------ properties of configure

\* Positions of the effect `ev` in what configure has done so far.
Done(ev) == {i \in 1..Len(boot.log) : boot.log[i] = ev}

\* C16: every vCPU is created after the in-kernel IRQ chip, whatever the
\* number of vCPUs and with or without a network device.
C16_IrqChipBeforeVcpus ==
    \A i \in Done("create_vcpu") : \E j \in Done("irq_chip") : j < i

\* Two vCPUs and a network device, both vCPUs created.
C16_Witness ==
    /\ boot.opts.tap
    /\ boot.opts.cpus = 2
    /\ Cardinality(Done("create_vcpu")) = 2

\* A vCPU thread has been created.
Started == \E v \in Vcpus : vcpuState[v] # "unspawned"

\* What configure has written to guest memory or set up so far.
Written == {boot.log[i] : i \in 1..Len(boot.log)}

\* The boot artifacts of this launch.
BootArtifacts ==
    {"kernel", "cmdline", "zeropage", "mptable", "gdt", "idt", "page_tables"}
    \cup (IF boot.opts.initramfs THEN {"initramfs"} ELSE {})

\* C17: when the first vCPU thread is created every boot artifact is in
\* guest memory, and once a vCPU thread exists configure writes nothing more.
C17_ArtifactsBeforeThreads ==
    [][/\ Started' => BootArtifacts \subseteq Written'
       /\ Started => boot'.log = boot.log]_vars

\* The second thread of a launch with an initramfs and a network device.
C17_Witness ==
    /\ vcpuState[1] # "unspawned"
    /\ boot.opts.initramfs
    /\ boot.opts.tap
    /\ BootArtifacts \subseteq Written

\* The command line in guest memory names the virtio-mmio device.
NamesVirtioDevice(cmd) == \E i \in 1..Len(cmd) : cmd[i] = VirtioCmdline[1]

C19_KernelLoadFailureStops ==
    boot.result = "KernelLoad" =>
        /\ boot.pc \in {"done", "run"}
        /\ Done("irq_chip") = {}
        /\ Done("create_vcpu") = {}
        /\ vcpus = {}
        /\ ~Started

\* Elf::load failed, and run was called afterwards and got past the spawn
\* loop.
C19_Witness ==
    /\ boot.result = "KernelLoad"
    /\ "kernel" \notin Written
    /\ hostState = "raw"

\* C20: for every memory size the registered MMIO region
\* [VirtioAddress, VirtioAddress + VirtioSize) starts at or above the end of
\* the guest RAM slot [0, mem_size).
C20_MmioAboveRam ==
    "register_mmio" \in Written => MemWords(boot.opts.mem_mb) <= VirtioAddress

\* ---------------------------------------------- one chain, byte by byte

\* Guest memory contents: byte a*k + c at address a.
Pattern(k, c) == [a \in 0..(MemSize - 1) |-> (a * k + c) % 256]

\* A frame of n bytes read from the TAP.
FrameOf(n) == [i \in 1..n |-> 200 + i]

\* Buffers of a chain: out of address order, overlapping, or running out of
\* guest memory.
DataDescs == {Desc(a, l) : a \in {0, 8, 20, MemSize - 4}, l \in {4, 8, 12}}

DataChains == {<<d>> : d \in DataDescs} \cup (DataDescs \X DataDescs)

\* mem.read_slice(&mut data_buffer[initial_buffer_len..], desc.addr())
ReadSlice(mem, d) == [k \in 1..d.len |-> mem[d.addr + k - 1]]

\* chain.memory().write_slice(bytes, addr): the bytes that fit are written
\* even when the slice runs out of guest memory.
WriteSlice(mem, bytes, addr) ==
    [a \in DOMAIN mem |->
        IF addr <= a /\ a < addr + Len(bytes) THEN bytes[a - addr + 1]
        ELSE mem[a]]

\* queue_notify entered for the chain `ds` with head index `h`.
TxStart(h, ds, m) ==
    [NoTransfer EXCEPT !.pc = "tx_read", !.head = h, !.descs = ds,
                       !.mem0 = m, !.mem = m]

\* write_frame_to_guest entered with a frame of n bytes and the chain `ds`.
RxStart(h, ds, n) ==
    [NoTransfer EXCEPT !.pc = "rx_write", !.head = h, !.descs = ds,
                       !.mem0 = Pattern(1, 0), !.mem = Pattern(1, 0),
                       !.frame = FrameOf(n)]

DataInit ==
    /\ wire \in {TxStart(h, ds, Pattern(k, 7 * (k - 1))) :
                    h \in 0..(MaxChains - 1), ds \in DataChains, k \in {1, 3}}
           \cup {RxStart(h, ds, n) :
                    h \in 0..(MaxChains - 1), ds \in DataChains, n \in FrameSizes}
    /\ call = NoCall
    /\ netPresent = TRUE
    /\ boot = Configured(TRUE)
    /\ vcpus = {}
    /\ vcpuState = [v \in Vcpus |-> "unspawned"]
    /\ vcpuExit = [v \in Vcpus |-> NoExit]
    /\ hostState = "epoll_wait"
    /\ hostResult = "none"
    /\ pending = <<>>
    /\ hostBuf = <<>>
    /\ hostLog = <<>>
    /\ serialOwner = NoThread
    /\ serialPoisoned = FALSE
    /\ mmioOwner = NoThread
    /\ mmioPoisoned = FALSE
    /\ netOwner = NoThread
    /\ netPoisoned = FALSE
    /\ fifo = <<>>
    /\ scr = 0
    /\ lsr = LSR_DEFAULT
    /\ avail = [q \in Queues |-> <<>>]
    /\ used = [q \in Queues |-> <<>>]
    /\ notif = [q \in Queues |-> TRUE]
    /\ offered = 0
    /\ interrupt_status = 0
    /\ txLog = <<>>

\* What a byte-level step leaves alone.
DataFrame ==
    UNCHANGED <<boot, call, vcpus, hostState, hostResult, pending, hostBuf, hostLog,
                vcpuVars, serialLockVars, mmioLockVars, netLockVars,
                netPresent, serialVars, netVars>>

\* chain.clone().for_each(|desc| { data_buffer.resize(..); read_slice(..) })
TxReadDesc ==
    /\ wire.pc = "tx_read"
    /\ wire.i <= Len(wire.descs)
    /\ LET d == wire.descs[wire.i] IN
       wire' = IF InMemory(d)
               THEN [wire EXCEPT !.buf = @ \o ReadSlice(wire.mem, d),
                                 !.i = @ + 1]
               ELSE \* read_slice(..).unwrap() panics
                    [wire EXCEPT !.pc = "tx_panic"]
    /\ DataFrame

\* if data_buffer.len() < VIRTIO_HDR_LEN { println!(..); return; }
TxCheckLen ==
    /\ wire.pc = "tx_read"
    /\ wire.i > Len(wire.descs)
    /\ wire' = [wire EXCEPT !.pc = IF Len(wire.buf) < VIRTIO_HDR_LEN
                                   THEN "tx_invalid" ELSE "tx_write"]
    /\ DataFrame

\* A write that leaves the virtio-net header out.
TxPayload_NoHeader(buf) == SubSeq(buf, VIRTIO_HDR_LEN + 1, Len(buf))

\* self.interface.write(&data_buffer): the TAP is open with IFF_VNET_HDR and
\* takes the buffer as it is.
TxPayload(buf) == buf

\* match self.interface.write(&data_buffer) { Ok(_) => .., Err(e) => .. }
TxWrite ==
    /\ wire.pc = "tx_write"
    /\ \E ok \in BOOLEAN :
         wire' = IF ok
                 THEN [wire EXCEPT !.tap = Append(@, TxPayload(wire.buf)),
                                   !.pc = "tx_used"]
                 ELSE [wire EXCEPT !.pc = "tx_done"]
    /\ DataFrame

\* queue.add_used(&*mem, chain.head_index(), 0x100).unwrap_or_else(..)
TxAddUsed ==
    /\ wire.pc = "tx_used"
    /\ \E ok \in BOOLEAN :
         wire' = [wire EXCEPT !.pc = "tx_done",
                              !.used = IF ok
                                       THEN Append(@, <<wire.head, TxUsedLen>>)
                                       ELSE @]
    /\ DataFrame

\* let len = cmp::min(left, desc.len() as usize)
SliceLen(left, dlen) == Min(left, dlen)

\* while let Some(desc) = chain.next() { .. write_slice(..)?; count += len }
RxWriteDesc ==
    /\ wire.pc = "rx_write"
    /\ wire.i <= Len(wire.descs)
    /\ Len(wire.frame) - wire.count # 0
    /\ LET d == wire.descs[wire.i]
           len == SliceLen(Len(wire.frame) - wire.count, d.len)
           bytes == SubSeq(wire.frame, wire.count + 1, wire.count + len)
           written == [wire EXCEPT !.mem = WriteSlice(wire.mem, bytes, d.addr)]
       IN wire' = IF d.addr + len <= MemSize
                  THEN [written EXCEPT !.count = @ + len, !.i = @ + 1]
                  ELSE [written EXCEPT !.pc = "rx_err"]
    /\ DataFrame

\* The chain is exhausted, or left == 0: break.
RxLoopEnd ==
    /\ wire.pc = "rx_write"
    /\ wire.i > Len(wire.descs) \/ Len(wire.frame) - wire.count = 0
    /\ wire' = [wire EXCEPT !.pc = "rx_used"]
    /\ DataFrame

\* A used entry that reports the frame length.
UsedLenRx_Frame(count, size) == size

\* add_used(&*mem, chain.head_index(), count as u32)
UsedLenRx(count, size) == count

RxAddUsed ==
    /\ wire.pc = "rx_used"
    /\ \E ok \in BOOLEAN :
         wire' = IF ok
                 THEN [wire EXCEPT
                         !.pc = "rx_done",
                         !.used = Append(@, <<wire.head,
                                              UsedLenRx(wire.count,
                                                        Len(wire.frame))>>)]
                 ELSE [wire EXCEPT !.pc = "rx_err"]
    /\ DataFrame

DataNext ==
    \/ TxReadDesc
    \/ TxCheckLen
    \/ TxWrite
    \/ TxAddUsed
    \/ RxWriteDesc
    \/ RxLoopEnd
    \/ RxAddUsed

DataSpec == DataInit /\ [][DataNext]_vars

\* ------------------------------------------- properties of the data path

\* The descriptor buffers of a chain, one after the other.
RECURSIVE Gather(_, _)
Gather(mem, ds) ==
    IF ds = <<>> THEN <<>> ELSE ReadSlice(mem, Head(ds)) \o Gather(mem, Tail(ds))

\* C13: the bytes written to the TAP for a TX chain are the chain's
\* descriptor buffers one after the other, without their first 12 bytes.
C13_TapGetsPayloadOnly ==
    wire.tap # <<>> =>
        LET all == Gather(wire.mem0, wire.descs)
        IN wire.tap = <<SubSeq(all, VIRTIO_HDR_LEN + 1, Len(all))>>

\* C13, amended: the bytes written to the TAP for a TX chain are the chain's
\* descriptor buffers one after the other, the 12-byte virtio-net header
\* included; a chain shorter than the header writes nothing.
C13_TapGetsWholeBuffer ==
    /\ wire.tap # <<>> => wire.tap = <<Gather(wire.mem0, wire.descs)>>
    /\ TotalLen(wire.descs) < VIRTIO_HDR_LEN => wire.tap = <<>>

\* A TX chain of two buffers, the second one lower in memory, went out.
C13_Witness ==
    /\ wire.pc = "tx_done"
    /\ wire.tap # <<>>
    /\ Len(wire.descs) = 2
    /\ wire.descs[2].addr < wire.descs[1].addr
    /\ Len(wire.tap[1]) > VIRTIO_HDR_LEN

\* Offsets, among the first n bytes of a frame laid over the buffers `ds` in
\* order, that fall on guest address a.
OffsetsAt(ds, a, n) ==
    {o \in 0..(n - 1) :
        \E i \in 1..Len(ds) :
            LET start == TotalLen(SubSeq(ds, 1, i - 1)) IN
            /\ start <= o
            /\ o < start + ds[i].len
            /\ ds[i].addr + (o - start) = a}

\* Guest memory once the first n bytes of `frame` lie across the buffers in
\* order: where buffers overlap, the later byte of the frame stays.
Scattered(mem, ds, frame, n) ==
    [a \in DOMAIN mem |->
        LET os == OffsetsAt(ds, a, n) IN
        IF os = {} THEN mem[a]
        ELSE frame[(CHOOSE o \in os : \A p \in os : p <= o) + 1]]

\* C14: an RX frame is laid in order across the buffers of the chain, and
\* the used ring receives the chain's head index with the number of bytes
\* written, the smaller of the frame length and the chain's capacity.
C14_RxScatterAndUsed ==
    wire.pc = "rx_done" =>
        LET n == Min(Len(wire.frame), TotalLen(wire.descs)) IN
        /\ wire.used = << <<wire.head, n>> >>
        /\ wire.mem = Scattered(wire.mem0, wire.descs, wire.frame, n)

\* A frame longer than its chain of two buffers has been delivered.
C14_Witness ==
    /\ wire.pc = "rx_done"
    /\ Len(wire.descs) = 2
    /\ wire.descs[2].addr < wire.descs[1].addr
    /\ TotalLen(wire.descs) < Len(wire.frame)
    /\ wire.used # <<>>

\* write_frame_to_guest writes a slice of the frame to a descriptor.
RxWrites ==
    /\ wire.pc = "rx_write"
    /\ wire'.pc \in {"rx_write", "rx_err"}
    /\ wire' # wire

\* C28: a write to guest memory that runs past mem_size fails and leaves
\* guest memory as it was; a write that fits can be read back at the same
\* address.
C28_GuestMemoryWrites ==
    [][RxWrites =>
         LET d == wire.descs[wire.i]
             len == Min(Len(wire.frame) - wire.count, d.len)
             bytes == SubSeq(wire.frame, wire.count + 1, wire.count + len)
         IN IF d.addr + len > MemSize
            THEN wire'.pc = "rx_err" /\ wire'.mem = wire.mem
            ELSE ReadSlice(wire'.mem, Desc(d.addr, len)) = bytes]_vars

\* ------------------------------------------------ properties of the UART

\* A vCPU thread is about to read the receiver buffer register.
ReadsRbr(v) ==
    /\ vcpuState[v] = "serial_cs"
    /\ vcpuExit[v].kind = "IoIn"
    /\ vcpuExit[v].a = SERIAL_PORT_BASE
    /\ vcpuState'[v] # "serial_cs"

DataReady == lsr % 2 = 1

\* C32: the bytes the stdin pump puts into the RX FIFO go to its back, every
\* RBR read takes the byte at its front and returns it, nothing else touches
\* the FIFO, whichever threads run in between; and LSR bit 0 is set exactly
\* when the FIFO holds a byte.
C32_FifoOrder ==
    [][/\ \A v \in Vcpus :
            ReadsRbr(v) /\ fifo # <<>> =>
                vcpuExit'[v].d = Head(fifo) /\ fifo' = Tail(fifo)
       /\ fifo' # fifo =>
            \/ \E v \in Vcpus : ReadsRbr(v)
            \/ hostState = "enq" /\ hostBuf' # <<>> /\ fifo' = fifo \o hostBuf'
       /\ DataReady <=> fifo # <<>>
       /\ DataReady' <=> fifo' # <<>>]_vars

\* A vCPU has read the first byte of a two-byte enqueue; the second is still
\* in the FIFO.
C32_Witness ==
    \E v \in Vcpus :
        /\ vcpuState[v] = "kvm_enter"
        /\ vcpuExit[v] = Exit("IoIn", SERIAL_PORT_BASE, 1)
        /\ fifo = <<2>>
        /\ DataReady

\* ------------------------------------------ a launch with a TAP interface

\* What a vCPU thread does when the guest only talks to the network device
\* and halts.
NetVcpuStep(v) ==
    \/ VcpuConnect(v)
    \/ VcpuEnter(v)
    \/ KvmReturn(v)
    \/ HandleHlt(v)
    \/ HandleMmioLock(v)
    \/ HandleMmioMiss(v)
    \/ HandleMmioDevice(v)
    \/ DeviceRegister(v)
    \/ QueueNotifyStart(v)
    \/ QnDisable(v)
    \/ QnIter(v)
    \/ QnEnable(v)

\* What the main thread does when only the TAP descriptor becomes readable.
NetHostStep ==
    \/ HostSpawn
    \/ HostRawMode
    \/ HostGetFd
    \/ HostEpollWait
    \/ HostEpollRetry
    \/ HostEpollFail
    \/ HostTapLock
    \/ HostTapRead
    \/ HostTapFrame
    \/ HostTapEnable
    \/ HostTapNotify
    \/ HostTapStatus
    \/ HostTapIrq
    \/ HostTapDone

NetInit == Init /\ netPresent

NetNext ==
    \/ \E v \in Vcpus : NetVcpuStep(v)
    \/ NetHostStep
    \/ GuestAddChain

\* The scheduler runs every thread that can take a step.
NetSpec ==
    /\ NetInit
    /\ [][NetNext]_vars
    /\ \A v \in Vcpus : WF_vars(NetVcpuStep(v))
    /\ WF_vars(NetHostStep)

\* ------------------------------------------------ properties of the drains

\* Positions of a vCPU thread inside the TX drain of queue_notify.
QnStates == {"qn_disable", "qn_iter", "qn_enable"}

\* C31: the RX drain started by a TAP event and the TX drain started by a
\* QueueNotify both come to an end: the handler returns (or fails) and does
\* not stay in its loop for ever with the device locked.
C31_DrainsTerminate ==
    /\ (hostState \in TapStates) ~> (hostState \notin TapStates)
    /\ \A v \in Vcpus : (vcpuState[v] \in QnStates) ~> (vcpuState[v] \notin QnStates)

\* The RX drain has left its loop after two frames, each in a chain of its
\* own, while the TAP had more to read.
C31_Witness ==
    /\ hostState = "tap_notify"
    /\ hostLog = <<"used", "used">>
    /\ avail[RXQ] = <<>>

\* A round of the TX drain takes a chain from the available ring.
TxChainTaken ==
    /\ \E v \in Vcpus : vcpuState[v] = "qn_iter"
    /\ avail[TXQ] # <<>>
    /\ avail'[TXQ] = Tail(avail[TXQ])

\* C35: every chain the TX drain takes from the available ring is put on the
\* used ring, once, in the round that took it: also when the TAP write fails
\* and when the chain is shorter than a virtio-net header.
C35_TxChainUsedOnce ==
    [][TxChainTaken =>
         /\ Len(used'[TXQ]) = Len(used[TXQ]) + 1
         /\ SubSeq(used'[TXQ], 1, Len(used[TXQ])) = used[TXQ]
         /\ used'[TXQ][Len(used'[TXQ])][1] = Head(avail[TXQ]).head]_vars

\* queue_notify returns on vCPU v after it has disabled notifications.
ReturnsAfterDisable(v) ==
    /\ vcpuState[v] \in {"qn_iter", "qn_enable"}
    /\ vcpuState'[v] = "kvm_enter"

\* C36: when queue_notify returns after having disabled guest notifications
\* on the TX queue, they are enabled again, on every path out of the drain.
C36_NotificationsRestored ==
    [][\A v \in Vcpus : ReturnsAfterDisable(v) => notif'[TXQ]]_vars

\* ------------------------------------------------ properties of the locks

Threads == Vcpus \cup {HostThread}

Locks == {"serial", "mmio", "net"}

\* The holder of a lock, given the holders of the three mutexes.
Holder(l, s, m, n) ==
    CASE l = "serial" -> s
      [] l = "mmio" -> m
      [] l = "net" -> n

Owner(l) == Holder(l, serialOwner, mmioOwner, netOwner)

\* The lock thread t is at the lock() call of, if any.
WaitsOn(t) ==
    IF t = HostThread
    THEN CASE hostState = "stdin_lock" -> "serial"
           [] hostState = "events" /\ pending # <<>> /\ Head(pending) = "tap" -> "net"
           [] OTHER -> "none"
    ELSE IF t \in Vcpus
    THEN CASE /\ vcpuState[t] = "exited"
              /\ vcpuExit[t].kind \in {"IoOut", "IoIn"}
              /\ IsSerialPort(vcpuExit[t].a) -> "serial"
           [] vcpuState[t] = "exited" /\ vcpuExit[t].kind \in MmioKinds -> "mmio"
           [] vcpuState[t] = "mmio_cs" /\ MmioAccess(vcpuExit[t].a) = "Ok" -> "net"
           [] OTHER -> "none"
    ELSE "none"

\* The thread that holds the lock t is waiting for, NoThread if t can go on.
BlockedBy(t) == IF WaitsOn(t) = "none" THEN NoThread ELSE Owner(WaitsOn(t))

\* t waits for a lock whose holder waits, directly or through other threads,
\* for a lock t holds (or t waits for a lock it holds itself).
InCycle(t) ==
    \/ BlockedBy(t) = t
    \/ BlockedBy(BlockedBy(t)) = t
    \/ BlockedBy(BlockedBy(BlockedBy(t))) = t

\* The order in which the locks are taken: the device after the bus, the
\* Serial with neither.
LockRank(l) ==
    CASE l = "serial" -> 0
      [] l = "mmio" -> 1
      [] l = "net" -> 2

\* Thread t takes lock l in this step.
Takes(t, l) ==
    /\ Owner(l) # t
    /\ Holder(l, serialOwner', mmioOwner', netOwner') = t

\* C37: no thread ever waits in a cycle of lock holders, and a thread that
\* takes a lock holds only locks that come before it in the one order
\* bus, then device.
C37_NoLockCycle ==
    /\ [](\A t \in Threads : ~InCycle(t))
    /\ [][\A t \in Threads : \A l \in Locks :
            Takes(t, l) => \A h \in Locks : Owner(h) = t => LockRank(h) < LockRank(l)]_vars

\* The vCPU holds the bus and waits for the device while the main thread is
\* in the RX drain.
C37_Witness ==
    /\ vcpuState[0] = "mmio_cs"
    /\ WaitsOn(0) = "net"
    /\ BlockedBy(0) = HostThread
    /\ hostState \in TapStates

\* ----------------------------------------------- properties of the console

\* The LumperSerial inside VMM.serial: 0 is the one VMM::new made, each
\* configure_console with a path puts a new one in its place. The vCPUs and
\* the stdin pump hold clones of the Arc and so reach whichever is inside.
SerialInUse == Cardinality(Done("serial_replace"))

\* The LumperSerial whose eventfd the registration at position i of the log
\* handed to KVM.
SerialRegistered(i) == Cardinality({j \in Done("serial_replace") : j < i})

\* C38: the eventfd registered as irqfd 4 is the one of the Serial in use:
\* with a redirected console the Serial is replaced before the registration,
\* and it is not replaced afterwards.
C38_IrqfdOfSerialInUse ==
    /\ \A i \in Done("irqfd4") : SerialRegistered(i) = SerialInUse
    /\ (boot.opts.console /\ Done("irqfd4") # {}) => SerialInUse = 1

\* A launch with a redirected console whose vCPU thread is running.
C38_Witness ==
    /\ boot.opts.console
    /\ Done("irqfd4") # {}
    /\ SerialInUse = 1
    /\ \E v \in Vcpus : vcpuState[v] = "connect"

\* ---------------------------------------------- properties of the MMIO bus

\* The MMIO bus of the IoManager: the registrations made on it and the
\* device behind them.
MmioBus == [registered |-> Cardinality(Done("register_mmio")), device |-> netPresent]

\* A vCPU thread is running.
ThreadStarted == \E v \in Vcpus : vcpuState[v] \notin {"unspawned", "dropped"}

\* C30: the MMIO bus changes only inside configure, and once a vCPU thread
\* has been started no device is registered on it or removed from it.
C30_BusFrozen ==
    [][/\ MmioBus' # MmioBus => boot.pc = "configure_net" /\ hostState = "configure"
       /\ ThreadStarted => MmioBus' = MmioBus]_vars

\* The second thread is started with the network device on the bus.
C30_Witness ==
    /\ ThreadStarted
    /\ vcpuState[1] = "connect"
    /\ MmioBus = [registered |-> 1, device |-> TRUE]

\* ------------------------------------------------- properties of threads

\* The vCPUs that configure pushed on VMM.vcpus.
ConfiguredVcpus == {v \in Vcpus : v < boot.next_vcpu}

\* C21: once run is past its spawn loop, every configured vCPU is run by a
\* thread of its own.
C21_OneThreadPerVcpu ==
    hostState \notin {"configure", "spawn"} =>
        \A v \in ConfiguredVcpus : vcpuState[v] \notin {"unspawned", "dropped"}

\* ----------------------------------------------------- properties of PIO

\* vCPU v takes a step of the handling of a PIO exit.
PioStep(v) ==
    /\ vcpuExit[v].kind \in {"IoOut", "IoIn"}
    /\ vcpuState[v] \in {"exited", "serial_cs"}
    /\ vcpuState'[v] # vcpuState[v]

\* C22: a PIO exit on a port of the UART takes the Serial lock, then an IoOut
\* writes data[0] to register (port - base) and an IoIn stores that register
\* in data[0]; on any other port the exit changes neither the Serial nor the
\* data, and the vCPU enters the guest again.
C22_PioDispatch ==
    [][\A v \in Vcpus : PioStep(v) =>
         LET e == vcpuExit[v]
             off == e.a - SERIAL_PORT_BASE
         IN IF e.a \in SERIAL_PORT_BASE..SERIAL_PORT_LAST_REGISTER
            THEN /\ vcpuState[v] = "exited" =>
                      /\ vcpuState'[v] \in {"serial_cs", "panicked"}
                      /\ vcpuState'[v] = "serial_cs" => serialOwner' = v
                      /\ UNCHANGED <<serialVars, vcpuExit>>
                 /\ vcpuState[v] = "serial_cs" =>
                      /\ serialOwner = v
                      /\ (e.kind = "IoOut" /\ vcpuState'[v] = "kvm_enter"
                            /\ off = 7) => scr' = e.d
                      /\ e.kind = "IoIn" =>
                            /\ vcpuState'[v] = "kvm_enter"
                            /\ vcpuExit'[v].d = SerialRead(off)
            ELSE /\ vcpuState'[v] = "kvm_enter"
                 /\ UNCHANGED <<serialVars, serialLockVars, vcpuExit>>]_vars

\* The guest read back from the scratch register the byte it wrote there.
C22_Witness ==
    \E v \in Vcpus :
        /\ vcpuState[v] = "kvm_enter"
        /\ vcpuExit[v] = Exit("IoIn", SERIAL_PORT_LAST_REGISTER, 1)

\* ------------------------------------------ functions of the launch path

\* Longest interface name tried, in bytes.
MaxNameLen == 17

\* Max size for an interface name.
IFACE_NAME_MAX_LEN == 16

\* The call of `fn` with argument `arg`, not yet made.
Call(fn, arg) == [NoCall EXCEPT !.fn = fn, !.arg = arg]

\* The call returned Ok(val) / Err(val).
Returned(c, ok, val) == [c EXCEPT !.done = TRUE, !.ok = ok, !.val = val]

\* An interface name of n bytes.
NameOf(n, c) == [i \in 1..n |-> c + (i % 3)]

Names == {NameOf(n, c) : n \in 0..MaxNameLen, c \in {97, 120}}

\* let mut t = [b'\0'; IFACE_NAME_MAX_LEN]; t[..name.len()].copy_from_slice(name)
Terminated(name) ==
    [i \in 1..IFACE_NAME_MAX_LEN |-> IF i <= Len(name) THEN name[i] ELSE 0]

\* impl TryFrom<String> for NetConfig
NetConfigTryFrom(c) ==
    IF Len(c.arg) >= IFACE_NAME_MAX_LEN
    THEN Returned(c, FALSE, <<>>)
    ELSE Returned(c, TRUE, c.arg)

\* devices/net/tap.rs
build_terminated_if_name(c) ==
    IF Len(c.arg) >= IFACE_NAME_MAX_LEN
    THEN Returned(c, FALSE, <<>>)
    ELSE Returned(c, TRUE, Terminated(c.arg))

\* devices/tap.rs
terminated_if_name(c) ==
    IF Len(c.arg) > IFACE_NAME_MAX_LEN
    THEN Returned(c, FALSE, <<>>)
    ELSE Returned(c, TRUE, Terminated(c.arg))

NameFns == {"NetConfig::try_from", "build_terminated_if_name", "terminated_if_name"}

\* What a call leaves alone.
FnFrame ==
    UNCHANGED <<boot, wire, vcpus, hostState, hostResult, pending, hostBuf,
                hostLog, vcpuVars, serialLockVars, mmioLockVars, netLockVars,
                netPresent, serialVars, netVars>>

CallNetConfigTryFrom ==
    /\ call.fn = "NetConfig::try_from"
    /\ ~call.done
    /\ call' = NetConfigTryFrom(call)
    /\ FnFrame

CallBuildTerminatedIfName ==
    /\ call.fn = "build_terminated_if_name"
    /\ ~call.done
    /\ call' = build_terminated_if_name(call)
    /\ FnFrame

CallTerminatedIfName ==
    /\ call.fn = "terminated_if_name"
    /\ ~call.done
    /\ call' = terminated_if_name(call)
    /\ FnFrame

\* C23: an interface name is accepted exactly when it is at most 15 bytes
\* long, at each of the three places that check or convert it, and an
\* accepted name gives 16 bytes that start with the name and end with NUL.
C23_NameAtMost15 ==
    (call.fn \in NameFns /\ call.done) =>
        /\ call.ok <=> Len(call.arg) <= 15
        /\ (call.ok /\ call.fn # "NetConfig::try_from") =>
              /\ Len(call.val) = 16
              /\ SubSeq(call.val, 1, Len(call.arg)) = call.arg
              /\ call.val[16] = 0

\* ------------------------------------------------------------ initramfs

\* pagesize() in 32-bit words.
PageWords == 1024

\* Number of 32-bit words a u32 byte address can reach.
U32Words == 1073741824

\* Memory sizes in MiB tried with an initramfs.
InitramfsMemMb == {1, 128, 4096, 4097, 6144}

\* Initramfs file sizes, in words, tried with a memory of mem words.
InitramfsSizes(mem) ==
    {1, PageWords, PageWords + 1, mem - PageWords, mem - 1, mem, mem + 1}

\* (lowmem_size - size) & !(pagesize() - 1)
AlignDown(a) == a - (a % PageWords)

\* `as u32` of an address or a size.
AsU32(a) == a % U32Words

InitramfsResult(err, a, size, written) ==
    [err |-> err, address |-> a, size |-> size, written |-> written,
     ramdisk_image |-> 0, ramdisk_size |-> 0]

\* load_initramfs: the file of c.arg.size words is read into a guest memory
\* of c.arg.mem words; copied words have been copied when read_from fails.
load_initramfs(c, copied) ==
    IF c.arg.mem < c.arg.size
    THEN Returned(c, FALSE, InitramfsResult("InitramfsAddress", 0, 0, 0))
    ELSE LET a == AlignDown(c.arg.mem - c.arg.size) IN
         IF copied = c.arg.size
         THEN Returned(c, TRUE, InitramfsResult("none", a, c.arg.size, copied))
         ELSE Returned(c, FALSE, InitramfsResult("InitramfsLoad", a, 0, copied))

\* kernel_setup: bootparams.hdr.ramdisk_image / ramdisk_size
SetRamdisk(c) ==
    IF c.ok
    THEN [c EXCEPT !.val.ramdisk_image = AsU32(c.val.address),
                   !.val.ramdisk_size = AsU32(c.val.size)]
    ELSE c

CallLoadInitramfs ==
    /\ call.fn = "load_initramfs"
    /\ ~call.done
    /\ \E copied \in {0, call.arg.size} :
         call' = SetRamdisk(load_initramfs(call, copied))
    /\ FnFrame

\* C24: an initramfs of exactly mem_size bytes is rejected and nothing is
\* written into guest memory.
C24_ExactFitRejected ==
    (call.fn = "load_initramfs" /\ call.done /\ call.arg.size = call.arg.mem)
        => (~call.ok /\ call.val.written = 0)

\* C25: an accepted initramfs is loaded at the highest page-aligned address
\* a with a + size <= mem_size, and ramdisk_image and ramdisk_size in
\* boot_params are that address and the file size.
C25_InitramfsPlacement ==
    (call.fn = "load_initramfs" /\ call.done /\ call.ok) =>
        LET a == call.val.address IN
        /\ a % PageWords = 0
        /\ a + call.arg.size <= call.arg.mem
        /\ a + PageWords + call.arg.size > call.arg.mem
        /\ call.val.ramdisk_image = a
        /\ call.val.ramdisk_size = call.arg.size

\* The guest memory the other configure steps write, as [lo, hi) in 32-bit
\* words: boot_params at ZEROPG_START (0x7000, one page), the PML4 and PDPTE
\* entries at PML4_START (0x9000) and PDPTE_START (0xa000), the 512 PDE
\* entries at PDE_START (0xb000), the command line at CMDLINE_START (0x20000)
\* and the kernel image at HIMEM_START (0x100000); of the command line and
\* of the image only the first word is counted.
ArtifactRegions ==
    {[name |-> "zero_page", lo |-> 7168, hi |-> 8192],
     [name |-> "pml4", lo |-> 9216, hi |-> 9218],
     [name |-> "pdpte", lo |-> 10240, hi |-> 10242],
     [name |-> "pde", lo |-> 11264, hi |-> 12288],
     [name |-> "cmdline", lo |-> 32768, hi |-> 32769],
     [name |-> "kernel", lo |-> 262144, hi |-> 262145]}

\* [lo, hi) and the artifact r share a word.
Overlaps(lo, hi, r) == lo < r.hi /\ r.lo < hi

\* kernel_setup reaches load_initramfs: the kernel image and the command
\* line were loaded into a guest memory of mem words.
KernelLoaded(mem) == \A r \in ArtifactRegions : r.hi <= mem

\* C39: the region [address, address + size) of an accepted initramfs
\* overlaps none of the other boot artifacts in guest memory.
C39_InitramfsDisjoint ==
    (/\ call.fn = "load_initramfs"
     /\ KernelLoaded(call.arg.mem)
     /\ call.done
     /\ call.ok) =>
        \A r \in ArtifactRegions :
            ~Overlaps(call.val.address, call.val.address + call.val.size, r)

\* ------------------------------------------------------- feature bits

\* Bit numbers of the virtio feature flags.
VIRTIO_NET_F_CSUM == 0
VIRTIO_NET_F_GUEST_CSUM == 1
VIRTIO_NET_F_GUEST_TSO4 == 7
VIRTIO_NET_F_GUEST_TSO6 == 8
VIRTIO_NET_F_GUEST_UFO == 10
VIRTIO_NET_F_HOST_TSO4 == 11
VIRTIO_NET_F_HOST_TSO6 == 12
VIRTIO_NET_F_HOST_UFO == 14
VIRTIO_F_RING_EVENT_IDX == 29
VIRTIO_F_VERSION_1 == 32
VIRTIO_F_IN_ORDER == 35

\* A u64 of flags is the set of its bits: (1 << a) | (1 << b) is {a, b}.
\* A VirtioNet that also offers event index.
VIRTIO_FEATURES_EventIdx ==
    {VIRTIO_F_VERSION_1, VIRTIO_F_RING_EVENT_IDX, VIRTIO_NET_F_CSUM,
     VIRTIO_NET_F_GUEST_CSUM, VIRTIO_NET_F_HOST_TSO4, VIRTIO_NET_F_HOST_TSO6,
     VIRTIO_NET_F_HOST_UFO, VIRTIO_NET_F_GUEST_TSO4, VIRTIO_NET_F_GUEST_TSO6,
     VIRTIO_NET_F_GUEST_UFO}

\* devices/net/mod.rs: the device VMM::configure_net creates.
VIRTIO_FEATURES ==
    {VIRTIO_F_VERSION_1, VIRTIO_NET_F_CSUM, VIRTIO_NET_F_GUEST_CSUM,
     VIRTIO_NET_F_HOST_TSO4, VIRTIO_NET_F_HOST_TSO6, VIRTIO_NET_F_HOST_UFO,
     VIRTIO_NET_F_GUEST_TSO4, VIRTIO_NET_F_GUEST_TSO6, VIRTIO_NET_F_GUEST_UFO}

\* devices/net.rs: Net::new
device_features ==
    {VIRTIO_F_VERSION_1, VIRTIO_F_RING_EVENT_IDX, VIRTIO_F_IN_ORDER,
     VIRTIO_NET_F_CSUM, VIRTIO_NET_F_GUEST_CSUM, VIRTIO_NET_F_GUEST_TSO4,
     VIRTIO_NET_F_GUEST_TSO6, VIRTIO_NET_F_GUEST_UFO, VIRTIO_NET_F_HOST_TSO4,
     VIRTIO_NET_F_HOST_TSO6, VIRTIO_NET_F_HOST_UFO}

NetDevices == {"VirtioNet", "Net"}

\* VirtioConfig::new(features, queues, config_space)
FeaturesOf(dev) == IF dev = "VirtioNet" THEN VIRTIO_FEATURES ELSE device_features

\* The guest reads DeviceFeatures with DeviceFeaturesSel = sel: the 32 bits
\* of page sel, nothing for a page past the second.
ReadDeviceFeatures(c) ==
    Returned(c, TRUE,
             {b - 32 * c.arg.sel :
                b \in {f \in FeaturesOf(c.arg.dev) :
                         32 * c.arg.sel <= f /\ f < 32 * (c.arg.sel + 1)}})

CallReadDeviceFeatures ==
    /\ call.fn = "DeviceFeatures"
    /\ ~call.done
    /\ call' = ReadDeviceFeatures(call)
    /\ FnFrame

\* Feature bit b is offered in the page just read.
Offered(b) == call.arg.sel = b \div 32 /\ (b % 32) \in call.val

\* The feature page just read offers exactly the bits of `bits` in it.
OffersExactly(bits) ==
    \A b \in 0..63 : call.arg.sel = b \div 32 => (Offered(b) <=> b \in bits)

\* The eleven feature bits of the specification.
ElevenBits == {32, 29, 35, 0, 1, 11, 12, 14, 7, 8, 10}

\* C26: the virtio-net device offers exactly VERSION_1, RING_EVENT_IDX,
\* IN_ORDER, CSUM, GUEST_CSUM, HOST_TSO4, HOST_TSO6, HOST_UFO, GUEST_TSO4,
\* GUEST_TSO6 and GUEST_UFO.
C26_ElevenFeatures ==
    (call.fn = "DeviceFeatures" /\ call.done) => OffersExactly(ElevenBits)

\* C26, amended: the device the VMM creates (VirtioNet) offers exactly
\* VERSION_1, CSUM, GUEST_CSUM, HOST_TSO4, HOST_TSO6, HOST_UFO, GUEST_TSO4,
\* GUEST_TSO6 and GUEST_UFO, and neither RING_EVENT_IDX nor IN_ORDER; Net
\* offers the eleven bits.
C26_NineFeatures ==
    (call.fn = "DeviceFeatures" /\ call.done) =>
        IF call.arg.dev = "VirtioNet"
        THEN OffersExactly(ElevenBits \ {29, 35})
        ELSE OffersExactly(ElevenBits)

\* The guest read the low feature page of VirtioNet.
C26_Witness ==
    /\ call.fn = "DeviceFeatures"
    /\ call.done
    /\ call.arg = [dev |-> "VirtioNet", sel |-> 0]
    /\ Offered(VIRTIO_NET_F_HOST_UFO)
    /\ ~Offered(VIRTIO_F_RING_EVENT_IDX)

\* ------------------------------------------------------- boot segments

\* gdt_entry(flags, base, limit): the 8 bytes of a segment descriptor, lowest
\* first. The access byte is the low byte of flags, the flags nibble its
\* bits 12 to 15.
gdt_entry(flags, base, limit) ==
    << limit % 256,
       (limit \div 256) % 256,
       base % 256,
       (base \div 256) % 256,
       (base \div 65536) % 256,
       flags % 256,
       ((flags \div 4096) % 16) * 16 + ((limit \div 65536) % 16),
       (base \div 16777216) % 256 >>

\* A table whose TSS descriptor has an empty flags nibble.
gdt_table_TssByteGranular ==
    << gdt_entry(0, 0, 0),
       gdt_entry(41115, 0, 1048575),
       gdt_entry(49299, 0, 1048575),
       gdt_entry(139, 0, 1048575) >>

\* [gdt_entry(0, 0, 0), gdt_entry(0xa09b, 0, 0xfffff),
\*  gdt_entry(0xc093, 0, 0xfffff), gdt_entry(0x808b, 0, 0xfffff)];
\* a sequence starts at 1, so gdt_table[i + 1] is entry i.
gdt_table ==
    << gdt_entry(0, 0, 0),
       gdt_entry(41115, 0, 1048575),
       gdt_entry(49299, 0, 1048575),
       gdt_entry(32907, 0, 1048575) >>

\* kvm_segment_from_gdt(entry, table_index)
kvm_segment_from_gdt(entry, table_index) ==
    [selector |-> table_index * 8,
     access |-> entry[6],
     flags |-> entry[7] \div 16,
     limit |-> entry[1] + 256 * entry[2] + 65536 * (entry[7] % 16)]

\* configure_sregs: the descriptor tables and segment registers it sets.
configure_sregs(c) ==
    LET code_seg == kvm_segment_from_gdt(gdt_table[2], 1)
        data_seg == kvm_segment_from_gdt(gdt_table[3], 2)
        tss_seg == kvm_segment_from_gdt(gdt_table[4], 3)
    IN Returned(c, TRUE,
                [gdt |-> gdt_table,
                 gdt_limit |-> 8 * Len(gdt_table) - 1,
                 idt_limit |-> 8 - 1,
                 cs |-> code_seg, ds |-> data_seg, es |-> data_seg,
                 fs |-> data_seg, gs |-> data_seg, ss |-> data_seg,
                 tr |-> tss_seg])

CallConfigureSregs ==
    /\ call.fn = "configure_sregs"
    /\ ~call.done
    /\ call' = configure_sregs(call)
    /\ FnFrame

\* Entry i of the table written has this access byte and flags nibble.
GdtEntryIs(i, access, flags) ==
    /\ call.val.gdt[i + 1][6] = access
    /\ call.val.gdt[i + 1][7] \div 16 = flags

\* Segment register r holds entry i of the table.
LoadedFrom(r, i) ==
    /\ call.val[r].selector = 8 * i
    /\ call.val[r].access = call.val.gdt[i + 1][6]
    /\ call.val[r].flags = call.val.gdt[i + 1][7] \div 16

\* What the claim and its amendment share: four entries, the first one
\* null, CODE64 and DATA, both limits, and the segment registers.
GdtCommon ==
    /\ Len(call.val.gdt) = 4
    /\ call.val.gdt[1] = <<0, 0, 0, 0, 0, 0, 0, 0>>
    /\ GdtEntryIs(1, 155, 10)
    /\ GdtEntryIs(2, 147, 12)
    /\ call.val.gdt_limit = 8 * 4 - 1
    /\ call.val.idt_limit = 7
    /\ LoadedFrom("cs", 1)
    /\ \A r \in {"ds", "es", "fs", "gs", "ss"} : LoadedFrom(r, 2)
    /\ LoadedFrom("tr", 3)

\* C27: the boot GDT holds NULL, CODE64 (access 0x9B, flags 0xA), DATA
\* (access 0x93, flags 0xC) and TSS (access 0x8B, flags 0x0); the GDT limit
\* is the table size minus one and the IDT limit 7; CS comes from entry 1,
\* DS, ES, FS, GS and SS from entry 2, TR from entry 3.
C27_GdtLayout ==
    (call.fn = "configure_sregs" /\ call.done) =>
        (GdtCommon /\ GdtEntryIs(3, 139, 0))

\* C27, amended: as above, with a TSS entry of access 0x8B and flags 0x8.
C27_GdtLayoutTssGranular ==
    (call.fn = "configure_sregs" /\ call.done) =>
        (GdtCommon /\ GdtEntryIs(3, 139, 8))

\* The segment registers of the second vCPU have been set.
C27_Witness ==
    /\ call.fn = "configure_sregs"
    /\ call.done
    /\ call.arg = 1
    /\ call.val.tr.selector = 24

\* ------------------------------------------------------ launch options

\* Option<T>: None is <<>>, Some(x) is <<x>>.
None == <<>>
Some(x) == <<x>>

\* Files present when the options are parsed.
ExistingFiles == {"./Cargo.toml", "initrd"}

\* PathBuf::from(String)
PathBuf(s) == [path |-> s]

\* Path::exists
Exists(p) == p.path \in ExistingFiles

\* impl Default for KernelConfig
KernelConfigDefault ==
    [kernel_path |-> PathBuf(""),
     cmdline |-> "console=ttyS0 i8042.nokbd reboot=k panic=1 pci=off"]

\* impl TryFrom<String> for KernelConfig
KernelConfigTryFrom(value) ==
    LET path == PathBuf(value)
    IN IF ~Exists(path)
       THEN [ok |-> FALSE, val |-> KernelConfigDefault]
       ELSE [ok |-> TRUE, val |-> [KernelConfigDefault EXCEPT !.kernel_path = path]]

\* #[derive(Default)] struct VMMConfigBuilder
VMMConfigBuilderDefault ==
    [kernel |-> KernelConfigDefault, initramfs |-> None, cpus |-> 0,
     memory |-> 0, verbose |-> 0, console |-> None, tap |-> None]

BuilderFields == DOMAIN VMMConfigBuilderDefault

\* VMMConfigBuilder::new
VMMConfigBuilder_new(num_vcpus, mem_size_mb, kernel) ==
    [VMMConfigBuilderDefault EXCEPT !.cpus = num_vcpus, !.memory = mem_size_mb,
                                    !.kernel = kernel]

\* VMMConfigBuilder::verbose
VMMConfigBuilder_verbose(b, lvl) == [b EXCEPT !.verbose = lvl]

\* A console setter that also forgets the TAP interface.
VMMConfigBuilder_console_DropsTap(b, console) ==
    [b EXCEPT !.console = console, !.tap = None]

\* VMMConfigBuilder::console
VMMConfigBuilder_console(b, console) == [b EXCEPT !.console = console]

\* VMMConfigBuilder::initramfs
VMMConfigBuilder_initramfs(b, initramfs_path) ==
    [b EXCEPT !.initramfs = IF initramfs_path # None
                            THEN Some(PathBuf(initramfs_path[1]))
                            ELSE None]

\* VMMConfigBuilder::tap: Some(tap) => Some(tap.try_into()?)
VMMConfigBuilder_tap(b, tap_name) ==
    IF tap_name = None
    THEN [ok |-> TRUE, val |-> [b EXCEPT !.tap = None]]
    ELSE LET net == NetConfigTryFrom(Call("NetConfig::try_from", tap_name[1]))
         IN IF net.ok
            THEN [ok |-> TRUE, val |-> [b EXCEPT !.tap = Some([tap_name |-> net.val])]]
            ELSE [ok |-> FALSE, val |-> b]

\* VMMConfigBuilder::build
VMMConfigBuilder_build(b) ==
    [kernel |-> b.kernel, initramfs |-> b.initramfs, cpus |-> b.cpus,
     memory |-> b.memory, verbose |-> b.verbose, console |-> b.console,
     tap |-> b.tap]

\* struct VMMOpts, as clap fills it
LaunchOpts ==
    [kernel : {"./Cargo.toml", "./Cargo.tomle"},
     initramfs : {None, Some("initrd")},
     cpus : {1, 2},
     memory : {256, 512},
     verbose : {0, 2},
     console : {None, Some("console.log")},
     tap : {None, Some(NameOf(4, 97)), Some(NameOf(IFACE_NAME_MAX_LEN, 97))}]

\* impl TryFrom<VMMOpts> for VMMConfig, before its first step.
TryFromOpts(opts) ==
    [Call("VMMConfig::try_from", opts)
        EXCEPT !.val = [pc |-> "builder", b |-> VMMConfigBuilderDefault]]

InTryFrom(pc) ==
    /\ call.fn = "VMMConfig::try_from"
    /\ ~call.done
    /\ call.val.pc = pc

Builder(c, pc, b) == [c EXCEPT !.val = [pc |-> pc, b |-> b]]

\* VMMConfig::builder(opts.cpus, opts.memory, opts.kernel).map_err(..)?
CallBuilder ==
    /\ InTryFrom("builder")
    /\ LET k == KernelConfigTryFrom(call.arg.kernel)
       IN call' = IF k.ok
                  THEN Builder(call, "initramfs",
                               VMMConfigBuilder_new(call.arg.cpus, call.arg.memory, k.val))
                  ELSE Returned(call, FALSE, [pc |-> "err", b |-> call.val.b])
    /\ FnFrame

\* .initramfs(opts.initramfs)
CallBuilderInitramfs ==
    /\ InTryFrom("initramfs")
    /\ call' = Builder(call, "tap",
                       VMMConfigBuilder_initramfs(call.val.b, call.arg.initramfs))
    /\ FnFrame

\* .tap(opts.tap).map_err(Error::ConfigParse)?
CallBuilderTap ==
    /\ InTryFrom("tap")
    /\ LET t == VMMConfigBuilder_tap(call.val.b, call.arg.tap)
       IN call' = IF t.ok
                  THEN Builder(call, "console", t.val)
                  ELSE Returned(call, FALSE, [pc |-> "err", b |-> t.val])
    /\ FnFrame

\* .console(opts.console)
CallBuilderConsole ==
    /\ InTryFrom("console")
    /\ call' = Builder(call, "verbose",
                       VMMConfigBuilder_console(call.val.b, call.arg.console))
    /\ FnFrame

\* .verbose(opts.verbose)
CallBuilderVerbose ==
    /\ InTryFrom("verbose")
    /\ call' = Builder(call, "build",
                       VMMConfigBuilder_verbose(call.val.b, call.arg.verbose))
    /\ FnFrame

\* .build()
CallBuilderBuild ==
    /\ InTryFrom("build")
    /\ call' = Returned(call, TRUE,
                        [pc |-> "built", b |-> VMMConfigBuilder_build(call.val.b)])
    /\ FnFrame

\* The configuration holds the options it was built from.
Preserves(cfg, opts) ==
    /\ cfg.kernel.kernel_path = PathBuf(opts.kernel)
    /\ cfg.cpus = opts.cpus
    /\ cfg.memory = opts.memory
    /\ cfg.verbose = opts.verbose
    /\ cfg.console = opts.console
    /\ cfg.initramfs = IF opts.initramfs = None THEN None
                       ELSE Some(PathBuf(opts.initramfs[1]))
    /\ cfg.tap = IF opts.tap = None THEN None
                 ELSE Some([tap_name |-> opts.tap[1]])

\* The field a step of the chain of setters is allowed to change.
SetterField(pc) ==
    CASE pc = "initramfs" -> "initramfs"
      [] pc = "tap" -> "tap"
      [] pc = "console" -> "console"
      [] pc = "verbose" -> "verbose"

Setters == {"initramfs", "tap", "console", "verbose"}

\* C29: the configuration built from the launch options holds the kernel
\* path, cpus, memory, verbose, console, initramfs and tap name that were
\* given, and each setter of the builder changes no field but its own.
C29_OptionsPreserved ==
    [][call.fn = "VMMConfig::try_from" /\ call' # call =>
         /\ call'.done /\ call'.ok => Preserves(call'.val.b, call.arg)
         /\ call.val.pc \in Setters =>
              \A f \in BuilderFields \ {SetterField(call.val.pc)} :
                  call'.val.b[f] = call.val.b[f]]_vars

C29_Witness ==
    /\ call.fn = "VMMConfig::try_from"
    /\ call.done /\ call.ok
    /\ call.arg.tap # None /\ call.arg.console # None
    /\ call.arg.initramfs # None /\ call.arg.verbose # 0

\* ------------------------------------------------------------ e820 table

EBDA_START == 654336
E820_RAM == 1
HIMEM_START == 1048576
\* params.e820_table.len()
E820_MAX_ENTRIES == 128
\* mem_size_mb << 20
BytesPerMb == 1048576

\* Guest memory sizes, in MiB, the boot parameters are built for.
E820MemMb == {1, 2, 128, 1024}

\* add_e820_entry
add_e820_entry(params, addr, size, mem_type) ==
    IF Len(params.e820_table) >= E820_MAX_ENTRIES
    THEN [ok |-> FALSE, err |-> "E820Configuration", params |-> params]
    ELSE [ok |-> TRUE, err |-> "none",
          params |-> [params EXCEPT !.e820_table =
                         Append(@, [addr |-> addr, size |-> size, type |-> mem_type])]]

\* guest_memory.last_addr(): the address of the last byte of the one region.
LastAddr(mem_size) == mem_size - 1

\* last_addr.checked_offset_from(himem_start)
HimemSize(last_addr) == last_addr - HIMEM_START

\* build_bootparams(guest_memory, GuestAddress(HIMEM_START))
build_bootparams(c) ==
    LET params == [e820_table |-> <<>>]
        ebda == add_e820_entry(params, 0, EBDA_START, E820_RAM)
        last_addr == LastAddr(c.arg)
    IN IF ~ebda.ok THEN Returned(c, FALSE, [err |-> ebda.err, params |-> ebda.params])
       ELSE IF last_addr < HIMEM_START
       THEN Returned(c, FALSE, [err |-> "HimemStartPastMemEnd", params |-> ebda.params])
       ELSE LET himem == add_e820_entry(ebda.params, HIMEM_START,
                                        HimemSize(last_addr), E820_RAM)
            IN Returned(c, himem.ok, [err |-> himem.err, params |-> himem.params])

CallBuildBootparams ==
    /\ call.fn = "build_bootparams"
    /\ ~call.done
    /\ call' = build_bootparams(call)
    /\ FnFrame

\* C33: the e820 table holds the two RAM entries (0, 0x9FC00) and
\* (0x100000, mem_size - 0x100000), the second ending at the end of guest
\* memory; with memory ending at or below 0x100000 building the boot
\* parameters fails with the himem-past-end error.
C33_E820Table ==
    (call.fn = "build_bootparams" /\ call.done) =>
        IF call.arg <= HIMEM_START
        THEN ~call.ok /\ call.val.err = "HimemStartPastMemEnd"
        ELSE /\ call.ok
             /\ call.val.params.e820_table =
                    << [addr |-> 0, size |-> EBDA_START, type |-> E820_RAM],
                       [addr |-> HIMEM_START, size |-> call.arg - HIMEM_START,
                        type |-> E820_RAM] >>

\* ---------------------------------------------------------- TAP offloads

\* Feature words handed to the TAP: every combination of the offload bits
\* and one bit the TAP has no flag for.
OffloadFeatures ==
    SUBSET {VIRTIO_NET_F_CSUM, VIRTIO_NET_F_GUEST_CSUM, VIRTIO_NET_F_HOST_TSO4,
            VIRTIO_NET_F_HOST_TSO6, VIRTIO_NET_F_HOST_UFO}

\* Tap::virtio_flags_to_tuntap_flags: the word of feature bits is the set of
\* the bits set in it, the result the set of TUN_F_ flags or-ed together.
virtio_flags_to_tuntap_flags(virtio_flags) ==
    (IF VIRTIO_NET_F_CSUM \in virtio_flags THEN {"TUN_F_CSUM"} ELSE {})
    \cup (IF VIRTIO_NET_F_HOST_UFO \in virtio_flags THEN {"TUN_F_UFO"} ELSE {})
    \cup (IF VIRTIO_NET_F_HOST_UFO \in virtio_flags THEN {"TUN_F_TSO4"} ELSE {})
    \cup (IF VIRTIO_NET_F_HOST_UFO \in virtio_flags THEN {"TUN_F_TSO6"} ELSE {})

\* Interface::activate: let flags = Tap::virtio_flags_to_tuntap_flags(virtio_flags)
CallTuntapFlags ==
    /\ call.fn = "virtio_flags_to_tuntap_flags"
    /\ ~call.done
    /\ call' = Returned(call, TRUE, virtio_flags_to_tuntap_flags(call.arg))
    /\ FnFrame

\* C34: each TAP offload flag follows its own feature bit: TUN_F_CSUM is set
\* iff NET_F_CSUM is, TUN_F_UFO iff NET_F_HOST_UFO, TUN_F_TSO4 iff
\* NET_F_HOST_TSO4, TUN_F_TSO6 iff NET_F_HOST_TSO6, and nothing else is set.
C34_OffloadPerFeature ==
    (call.fn = "virtio_flags_to_tuntap_flags" /\ call.done) =>
        /\ "TUN_F_CSUM" \in call.val <=> VIRTIO_NET_F_CSUM \in call.arg
        /\ "TUN_F_UFO" \in call.val <=> VIRTIO_NET_F_HOST_UFO \in call.arg
        /\ "TUN_F_TSO4" \in call.val <=> VIRTIO_NET_F_HOST_TSO4 \in call.arg
        /\ "TUN_F_TSO6" \in call.val <=> VIRTIO_NET_F_HOST_TSO6 \in call.arg
        /\ call.val \subseteq {"TUN_F_CSUM", "TUN_F_UFO", "TUN_F_TSO4", "TUN_F_TSO6"}

\* ------------------------------------------------ device configuration

\* Bytes of config_vec: mac 6, status 2, max_virtqueue_pairs 2, mtu 2,
\* speed 4, duplex 1.
ConfigSpaceLen == 17

\* MMIO offsets of the accesses tried: magic value, queue notify, status,
\* the first and the last byte of the config space, the byte after it, the
\* bytes around config_space.len() * 8 and the last byte of the window.
MmioOffsets == {0, 80, 112, 256, 272, 273, 391, 392, 4095}

\* A usize as four 16-bit limbs, least significant first.
Usize(x) == <<x % 65536, (x \div 65536) % 65536, 0, 0>>

\* !x on a usize
NotUsize(l) == [i \in 1..4 |-> 65535 - l[i]]

\* l < n for a usize l and n below 65536
UsizeLess(l, n) == l[4] = 0 /\ l[3] = 0 /\ l[2] = 0 /\ l[1] < n

\* VirtioMmioOffset::from(offset): the device-specific configuration starts
\* at 0x100 in the MMIO window.
VirtioMmioOffset(off) ==
    IF off >= 256
    THEN [kind |-> "DeviceSpecific", offset |-> off - 256]
    ELSE [kind |-> "Register", offset |-> off]

\* if let DeviceSpecific(offset) = offset
\*     { !(*offset as usize) < config_space.len() * 8 } else { true }
is_reading_register(offset) ==
    IF offset.kind = "DeviceSpecific"
    THEN UsizeLess(NotUsize(Usize(offset.offset)), ConfigSpaceLen * 8)
    ELSE TRUE

\* The config space after write_config(offset, <<b>>).
write_config(config, offset, b) ==
    IF offset + 1 <= Len(config) THEN [config EXCEPT ![offset + 1] = b]
    ELSE config

\* virtio_mmio_read / virtio_mmio_write of one byte at c.arg.offset: the
\* access reaches self.read / self.write only if is_reading_register.
virtio_mmio_access(c) ==
    LET offset == VirtioMmioOffset(c.arg.offset)
        forwarded == is_reading_register(offset)
        config == [i \in 1..ConfigSpaceLen |-> 0]
    IN  Returned(c, TRUE,
            [forwarded |-> forwarded,
             before |-> config,
             config_space |->
                 IF /\ forwarded
                    /\ c.fn = "virtio_mmio_write"
                    /\ offset.kind = "DeviceSpecific"
                 THEN write_config(config, offset.offset, 1)
                 ELSE config])

CallVirtioMmio ==
    /\ call.fn \in {"virtio_mmio_read", "virtio_mmio_write"}
    /\ ~call.done
    /\ call' = virtio_mmio_access(call)
    /\ FnFrame

\* C40: an access at a device-specific offset is forwarded to the device iff
\* the offset lies inside the config space, an access to any other register
\* is always forwarded, and an access that is not forwarded leaves the
\* config space as it was.
C40_ConfigAccessForwarded ==
    (call.fn \in {"virtio_mmio_read", "virtio_mmio_write"} /\ call.done) =>
        LET offset == VirtioMmioOffset(call.arg.offset) IN
        /\ offset.kind = "DeviceSpecific" =>
              (call.val.forwarded <=> offset.offset < ConfigSpaceLen)
        /\ offset.kind # "DeviceSpecific" => call.val.forwarded
        /\ ~call.val.forwarded => call.val.config_space = call.val.before

\* ------------------------------------------------------ the calls explored

\* Everything but the call is at rest.
FnRest ==
    /\ boot = Configured(FALSE)
    /\ wire = NoTransfer
    /\ netPresent = FALSE
    /\ vcpus = {}
    /\ vcpuState = [v \in Vcpus |-> "unspawned"]
    /\ vcpuExit = [v \in Vcpus |-> NoExit]
    /\ hostState = "configure"
    /\ hostResult = "none"
    /\ pending = <<>>
    /\ hostBuf = <<>>
    /\ hostLog = <<>>
    /\ serialOwner = NoThread
    /\ serialPoisoned = FALSE
    /\ mmioOwner = NoThread
    /\ mmioPoisoned = FALSE
    /\ netOwner = NoThread
    /\ netPoisoned = FALSE
    /\ fifo = <<>>
    /\ scr = 0
    /\ lsr = LSR_DEFAULT
    /\ avail = [q \in Queues |-> <<>>]
    /\ used = [q \in Queues |-> <<>>]
    /\ notif = [q \in Queues |-> TRUE]
    /\ offered = 0
    /\ interrupt_status = 0
    /\ txLog = <<>>

FnInit ==
    /\ \/ call \in {Call(f, n) : f \in NameFns, n \in Names}
       \/ call \in {Call("load_initramfs", [mem |-> MemWords(mb), size |-> sz]) :
                        mb \in InitramfsMemMb,
                        sz \in UNION {InitramfsSizes(MemWords(k)) :
                                         k \in InitramfsMemMb}}
       \/ call \in {Call("DeviceFeatures", [dev |-> d, sel |-> k]) :
                        d \in NetDevices, k \in 0..2}
       \/ call \in {Call("configure_sregs", v) : v \in Vcpus}
       \/ call \in {TryFromOpts(o) : o \in LaunchOpts}
       \/ call \in {Call("build_bootparams", mb * BytesPerMb) : mb \in E820MemMb}
       \/ call \in {Call("virtio_flags_to_tuntap_flags", f) : f \in OffloadFeatures}
       \/ call \in {Call(f, [offset |-> o]) :
                        f \in {"virtio_mmio_read", "virtio_mmio_write"},
                        o \in MmioOffsets}
    /\ FnRest

FnNext ==
    \/ CallNetConfigTryFrom
    \/ CallBuildTerminatedIfName
    \/ CallTerminatedIfName
    \/ CallLoadInitramfs
    \/ CallReadDeviceFeatures
    \/ CallConfigureSregs
    \/ CallBuilder
    \/ CallBuilderInitramfs
    \/ CallBuilderTap
    \/ CallBuilderConsole
    \/ CallBuilderVerbose
    \/ CallBuilderBuild
    \/ CallBuildBootparams
    \/ CallTuntapFlags
    \/ CallVirtioMmio

FnSpec == FnInit /\ [][FnNext]_vars

====
